---- MODULE Spec2Model ----
(***************************************************************************)
(* Model of the autonomous action-decision loop of auto-qa-guide:          *)
(*   AutoPilot.execute        (lib/analyzer/auto-pilot.ts)                 *)
(*   ActionDecider            (lib/analyzer/action-decider.ts)             *)
(*   PageStateAnalyzer        (lib/analyzer/page-state-analyzer.ts)        *)
(*   InteractionHandler       (lib/analyzer/interaction-handler.ts)        *)
(* The browser page is the environment: its reactions to an executed       *)
(* action are drawn nondeterministically from the outcomes a page can      *)
(* produce.  Texts are represented by labels; "includes" on a text is a    *)
(* lookup in the label tables below.                                       *)
(***************************************************************************)
EXTENDS Integers, Sequences, FiniteSets, TLC

\* ------------------------------------------------------------------ bounds
\* config.maxSteps given to the AutoPilot under test
MaxSteps == 4
\* largest number of recordStateSnapshot calls in the snapshot specification
MaxRecords == 12
\* config.maxSteps of the instance on which execute() is called twice
MaxCallSteps == 2
\* largest number of times the event loop switches between two calls
MaxSwitches == 2
\* largest timeout, in ticks, given to a wait primitive
MaxTimeout == 2
\* last tick of the clock of the wait specification
MaxClock == 4
\* largest number of keywords in a classified failure message
MaxKeywords == 2
\* largest maxRetries given to withExponentialBackoff
MaxBackoffRetries == 3
\* largest delay, in units of the smallest delay, given to withExponentialBackoff
MaxDelayUnits == 3
\* number of runs in which a default value is generated for a field
MaxRuns == 2
\* largest number of actions recorded in the stuck episode specification
MaxHistory == 7

\* ------------------------------------------------------- program constants
\* config.maxRetries default
DefaultMaxRetries == 2
\* ErrorRecovery maxRetries as AutoPilot constructs it (config.maxRetries ?? 3)
RecoveryMaxRetries == 3
\* ActionDecider.stuckThreshold
stuckThreshold == 3
\* ActionDecider.maxSnapshotHistory
maxSnapshotHistory == 10

VARIABLES
  page,                  \* the live page (environment)
  config,                \* AutoPilot.config
  pc,                    \* position of execute(): "idle", "running", "returned"
  goal,                  \* the goal of the current execute() call
  currentStep,           \* execute(): let currentStep
  retryCount,            \* execute(): let retryCount
  steps,                 \* execute(): const steps
  result,                \* the ExecutionResult returned
  processedInstructions, \* AutoPilot.processedInstructions
  actionHistory,         \* ActionDecider.actionHistory
  stateSnapshots,        \* ActionDecider.stateSnapshots (hashes)
  fieldStrategies,       \* ActionDecider.fieldStrategies
  recorded,              \* every hash ever passed to recordStateSnapshot
  ih,                    \* one InteractionHandler.fillField call
  dd,                    \* one DropdownHandler.selectOrCreate call
  er,                    \* one ErrorRecovery.attemptRecovery call
  ea,                    \* one AutoPilot.executeAction call
  other,                 \* a second execute() call on the same AutoPilot
  ws,                    \* one WaitStrategy call
  pa,                    \* one PageStateAnalyzer.analyze call
  ce,                    \* one ErrorRecovery.classifyError call
  fa                     \* one SmartFieldAnalyzer.analyzeField call

vars == <<page, config, pc, goal, currentStep, retryCount, steps, result,
          processedInstructions, actionHistory, stateSnapshots,
          fieldStrategies, recorded, ih, dd, er, ea, other, ws, pa, ce, fa>>

\* ---------------------------------------------------------------- helpers
\* Array.prototype.find as an index: the first i with P(s[i]), 0 when none
FindIdx(s, P(_)) ==
  IF \E i \in 1..Len(s) : P(s[i])
  THEN CHOOSE i \in 1..Len(s) : P(s[i]) /\ \A j \in 1..(i - 1) : ~P(s[j])
  ELSE 0

\* Array.prototype.filter
FilterSeq(s, P(_)) == SelectSeq(s, P)

\* ------------------------------------------------------------ field names
\* labels standing for the visible names of fields
Names == {"channel name", "campaign name", "name", "email", "memo", "confirm text"}

\* the names of the fields a default value is generated for
FieldNames == Names \cup {"phone", "website url"}

\* ----------------------------------------------------------------- selectors
Sel(scope, key) == [scope |-> scope, key |-> key]
NoSel == Sel("none", "none")

\* ---------------------------------------------------------- page elements
Btn(text, disabled, sel) ==
  [text |-> text, disabled |-> disabled, visible |-> TRUE, selector |-> sel]

Inp(name, required, disabled, visible, value, sel) ==
  [name |-> name, required |-> required, disabled |-> disabled,
   visible |-> visible, value |-> value, selector |-> sel]

\* the confirmation text a type-to-confirm dialog asks for
RequiredText == "DELETE"

\* modal dialogs a page can show
TypeToDelete ==
  [inputs  |-> << Inp("confirm text", FALSE, FALSE, TRUE, "", Sel("dialog", "input")) >>,
   buttons |-> << Btn("cancel", FALSE, Sel("dialog", "cancel")),
                  Btn("delete", TRUE, Sel("dialog", "delete")) >>,
   requires |-> RequiredText,
   followUp |-> "sure"]

AreYouSure ==
  [inputs  |-> << >>,
   buttons |-> << Btn("cancel", FALSE, Sel("dialog", "cancel")),
                  Btn("confirm", FALSE, Sel("dialog", "confirm")) >>,
   requires |-> "",
   followUp |-> "none"]

Notice ==
  [inputs  |-> << >>,
   buttons |-> << Btn("close", FALSE, Sel("dialog", "close")) >>,
   requires |-> "",
   followUp |-> "none"]

NameDialog ==
  [inputs  |-> << Inp("name", TRUE, FALSE, TRUE, "", Sel("dialog", "input")) >>,
   buttons |-> << Btn("save", FALSE, Sel("dialog", "save")) >>,
   requires |-> "",
   followUp |-> "none"]

\* a dialog with two inputs, the first one already filled
PairDialog ==
  [inputs  |-> << Inp("name", TRUE, FALSE, TRUE, "kept", Sel("dialog", "input")),
                  Inp("memo", FALSE, FALSE, TRUE, "", Sel("dialog", "input")) >>,
   buttons |-> << Btn("save", FALSE, Sel("dialog", "save")) >>,
   requires |-> "",
   followUp |-> "none"]

ModalKinds == {TypeToDelete, AreYouSure, Notice, NameDialog, PairDialog}

\* handleModal: b.text.includes('확인') || includes('삭제') || includes('저장')
ConfirmLike(text) == text \in {"confirm", "delete", "save"}

\* String.prototype.includes on the labels used here
Includes(text, sub) ==
  \/ text = sub
  \/ sub = "name" /\ text \in {"channel name", "campaign name"}

\* ------------------------------------------------------ PageStateAnalyzer
ModalInputs(ms) ==
  IF Len(ms) = 0 THEN << >>
  ELSE IF Len(ms) = 1 THEN ms[1].inputs
  ELSE ms[1].inputs \o ms[2].inputs

ModalButtons(ms) ==
  IF Len(ms) = 0 THEN << >>
  ELSE IF Len(ms) = 1 THEN ms[1].buttons
  ELSE ms[1].buttons \o ms[2].buttons

\* extractButtons: every button of the document
extractButtons(p) == p.buttons \o ModalButtons(p.modals)

\* extractInputs: every input of the document, visible or not
extractInputs(p) == p.fields \o ModalInputs(p.modals)

\* extractModals: the open dialogs
extractModals(p) == p.modals

IsVisible(e) == e.visible

\* groupIntoForms: one form holding the visible inputs and buttons
groupIntoForms(inputs, buttons) ==
  << [inputs  |-> FilterSeq(inputs, IsVisible),
      buttons |-> FilterSeq(buttons, IsVisible)] >>

\* analyze: the PageState snapshot of the page
analyze(p) ==
  [url     |-> p.url,
   buttons |-> extractButtons(p),
   inputs  |-> extractInputs(p),
   modals  |-> extractModals(p),
   forms   |-> groupIntoForms(extractInputs(p), extractButtons(p))]

\* ---------------------------------------------------------- ActionDecider
Act(type, selector, value, reason) ==
  [type |-> type, selector |-> selector, value |-> value, reason |-> reason]

NoAction == Act("none", NoSel, "", "none")

Strategy(pattern, value) == [fieldPattern |-> pattern, value |-> value]

\* initDefaultStrategies: the list after the unshift calls and the final push
DefaultStrategies ==
  << Strategy({"channel name"}, "ch_random"),
     Strategy({"campaign name"}, "test_campaign_ts"),
     Strategy({}, "test_adgroup_ts"),
     Strategy({}, "test_creative_ts"),
     Strategy({"channel name", "campaign name", "name"}, "test_name_ts"),
     Strategy({"website url"}, "https://example.com/test"),
     Strategy({"email"}, "test_ts@example.com"),
     Strategy({"phone"}, "010-1234-5678"),
     Strategy(FieldNames, "test_value_ts") >>

\* generateValue: the value of the first strategy whose pattern matches
generateValue(input, strategies) ==
  LET k == FindIdx(strategies, LAMBDA st : input.name \in st.fieldPattern)
  IN  IF k # 0 THEN strategies[k].value ELSE "fallback_ts"

\* handleModal: fill the first empty input of the first modal, else click
\* its first enabled confirm-like button, else Escape
handleModal(state, strategies) ==
  LET modal == state.modals[1]
      e == FindIdx(modal.inputs, LAMBDA i : i.value = "")
      c == FindIdx(modal.buttons, LAMBDA b : ~b.disabled /\ ConfirmLike(b.text))
  IN  IF Len(modal.inputs) > 0 /\ e # 0
      THEN Act("fill", modal.inputs[e].selector,
               generateValue(modal.inputs[e], strategies), "modal-field")
      ELSE IF c # 0
      THEN Act("click", modal.buttons[c].selector, "", "modal-button")
      ELSE Act("escape", NoSel, "", "modal-escape")

\* findTargetButton: index in state.buttons, 0 when undefined
findTargetButton(state, g) ==
  IF g.targetButton = "" THEN 0
  ELSE FindIdx(state.buttons, LAMBDA b : b.visible /\ Includes(b.text, g.targetButton))

EmptyNamed(i, fieldName) ==
  i.visible /\ ~i.disabled /\ i.value = "" /\ Includes(i.name, fieldName)

\* first loop of findNextInputToFill: the first goal.requiredFields entry
\* that has a matching empty input; index in form.inputs, 0 when none
RECURSIVE FirstRequiredNamed(_, _, _)
FirstRequiredNamed(formInputs, names, k) ==
  IF k > Len(names) THEN 0
  ELSE LET j == FindIdx(formInputs, LAMBDA i : EmptyNamed(i, names[k]))
       IN  IF j # 0 THEN j ELSE FirstRequiredNamed(formInputs, names, k + 1)

\* mutant of findNextInputToFill: required fields get no priority
findNextInputToFillNoPriority(state, g) ==
  IF Len(state.forms) = 0 THEN 0
  ELSE LET fin == state.forms[1].inputs
           byName == FirstRequiredNamed(fin, g.requiredFields, 1)
           emptyVisible ==
             FindIdx(fin, LAMBDA i : i.visible /\ ~i.disabled /\ i.value = "")
       IN  IF byName # 0 THEN byName ELSE emptyVisible

\* findNextInputToFill: index in forms[0].inputs, 0 when undefined
findNextInputToFill(state, g) ==
  IF Len(state.forms) = 0 THEN 0
  ELSE LET fin == state.forms[1].inputs
           byName == FirstRequiredNamed(fin, g.requiredFields, 1)
           emptyRequired ==
             FindIdx(fin, LAMBDA i : i.visible /\ ~i.disabled /\ i.required /\ i.value = "")
           emptyVisible ==
             FindIdx(fin, LAMBDA i : i.visible /\ ~i.disabled /\ i.value = "")
       IN  IF byName # 0 THEN byName
           ELSE IF emptyRequired # 0 THEN emptyRequired
           ELSE emptyVisible

\* index of the last action of the given type in the history, 0 when none
LastIndexOf(history, type) ==
  IF \E i \in 1..Len(history) : history[i].type = type
  THEN CHOOSE i \in 1..Len(history) :
         history[i].type = type /\ \A j \in (i + 1)..Len(history) : history[j].type # type
  ELSE 0

\* mutant of shouldTriggerBlur: the last tab is not looked at
shouldTriggerBlurIgnoresTab(history) ==
  LastIndexOf(history, "fill") # 0

\* shouldTriggerBlur: a fill was recorded after the last tab
shouldTriggerBlur(history) ==
  LET lastFill == LastIndexOf(history, "fill")
      lastTab  == LastIndexOf(history, "tab")
  IN  IF lastFill = 0 THEN FALSE ELSE lastFill > lastTab

\* mutant of checkSuccessIndicator: the test is negated
checkSuccessIndicatorNegated(p, indicator) == ~Includes(p.url, indicator)

\* checkSuccessIndicator for a URL pattern: page.url().includes(indicator)
checkSuccessIndicator(p, indicator) == Includes(p.url, indicator)

\* mutant of ShouldClickTarget: the disabled test is inverted
ShouldClickTargetInverted(state, t) == t # 0 /\ state.buttons[t].disabled

\* if (targetButton && !targetButton.disabled)
ShouldClickTarget(state, t) == t # 0 /\ ~state.buttons[t].disabled

\* if (targetButton && targetButton.disabled)
ShouldFillFields(state, t) == t # 0 /\ state.buttons[t].disabled

\* mutant of SuccessReached: a goal without success condition counts as reached
SuccessReachedWithoutCondition(g, p) ==
  g.successIndicator = "" \/ checkSuccessIndicator(p, g.successIndicator)

\* if (goal.successIndicator) { success = await checkSuccessIndicator(...) }
SuccessReached(g, p) ==
  g.successIndicator # "" /\ checkSuccessIndicator(p, g.successIndicator)

\* decideNextAction
decideNextAction(g, p, history, strategies) ==
  LET state == analyze(p)
      t == findTargetButton(state, g)
      n == findNextInputToFill(state, g)
  IN  IF Len(state.modals) > 0 THEN handleModal(state, strategies)
      ELSE IF SuccessReached(g, p)
      THEN Act("done", NoSel, "", "goal-reached")
      ELSE IF ShouldClickTarget(state, t)
      THEN Act("click", state.buttons[t].selector, "", "target-enabled")
      ELSE IF ShouldFillFields(state, t)
      THEN IF n # 0
           THEN Act("fill", state.forms[1].inputs[n].selector,
                    generateValue(state.forms[1].inputs[n], strategies), "field-needed")
           ELSE IF shouldTriggerBlur(history)
           THEN Act("tab", NoSel, "", "blur")
           ELSE Act("explore", NoSel, "", "target-still-disabled")
      ELSE IF g.targetButton # ""
      THEN Act("blocked", NoSel, "", "target-not-found")
      ELSE Act("blocked", NoSel, "", "cannot-decide")

\* ------------------------------------------- AutoPilot: field instructions
Instr(field, value, skipIfFilled) ==
  [field |-> field, value |-> value, skipIfFilled |-> skipIfFilled]

\* analyzeAllFields: the visible inputs of the document
analyzeAllFields(p) == FilterSeq(extractInputs(p), IsVisible)

\* matchesFieldIdentifier for an identifier that carries a selector
matchesFieldIdentifier(identifier, f) == f.selector = identifier

\* mutant of SkipFilled: the skipIfFilled option is not looked at
SkipFilledAlways(ins, f) == f.value # ""

\* if (skipIfFilled && matchedField.context.value)
SkipFilled(ins, f) == ins.skipIfFilled /\ f.value # ""

\* mutant of MarkEmitted: the emitted instruction is not marked
MarkEmittedNot(processed, i) == processed

\* this.processedInstructions.add(i) before the Fill is returned
MarkEmitted(processed, i) == processed \cup {i}

\* processNextInstruction from instruction i on: the Fill to execute
\* (NoAction for null) and the processed set it leaves behind
RECURSIVE processNextInstruction(_, _, _, _)
processNextInstruction(g, p, processed, i) ==
  IF i > Len(g.fieldInstructions)
  THEN [action |-> NoAction, processed |-> processed]
  ELSE IF i \in processed
  THEN processNextInstruction(g, p, processed, i + 1)
  ELSE LET ins == g.fieldInstructions[i]
           all == analyzeAllFields(p)
           m   == FindIdx(all, LAMBDA f : matchesFieldIdentifier(ins.field, f))
       IN  IF m = 0
           THEN processNextInstruction(g, p, processed, i + 1)
           ELSE IF SkipFilled(ins, all[m])
           THEN processNextInstruction(g, p, processed \cup {i}, i + 1)
           ELSE IF all[m].disabled
           THEN processNextInstruction(g, p, processed, i + 1)
           ELSE [action    |-> Act("fill", all[m].selector, ins.value, "instruction"),
                 processed |-> MarkEmitted(processed, i)]

\* ------------------------------------------------ the page as environment
MapSeq(s, F(_)) == [k \in 1..Len(s) |-> F(s[k])]

\* the page after the value v was written into the first input matching sel
WritePageField(p, sel, v) ==
  LET k == FindIdx(p.fields, LAMBDA f : f.selector = sel)
  IN  [p EXCEPT !.fields[k].value = v]

\* locator(selector).first() on a dialog input: the first dialog of the
\* document holding an input the selector matches, and that input in it
InputOf(d, sel) == FindIdx(d.inputs, LAMBDA i : i.selector = sel)

DialogOf(p, sel) == FindIdx(p.modals, LAMBDA d : InputOf(d, sel) # 0)

\* the page after v was typed into the dialog input the selector resolves
\* to: a dialog that asks for a confirmation text enables its delete button
\* on that text
WriteDialogField(p, sel, v) ==
  LET m == DialogOf(p, sel)
      d == p.modals[m]
      k == InputOf(d, sel)
      nb == IF d.requires = "" THEN d.buttons
            ELSE MapSeq(d.buttons,
                   LAMBDA b : IF b.text = "delete"
                              THEN [b EXCEPT !.disabled = (v # d.requires)]
                              ELSE b)
  IN  [p EXCEPT !.modals[m] = [d EXCEPT !.inputs[k].value = v, !.buttons = nb]]

\* the page after its disabled buttons were enabled by form validation
EnableButtons(p) ==
  [p EXCEPT !.buttons = MapSeq(p.buttons, LAMBDA b : [b EXCEPT !.disabled = FALSE])]

\* the page after the dialog m was closed, its follow-up dialog opened
CloseDialog(p, m, confirmed) ==
  LET d == p.modals[m]
      rest == SubSeq(p.modals, 1, m - 1) \o SubSeq(p.modals, m + 1, Len(p.modals))
  IN  [p EXCEPT !.modals = IF confirmed /\ d.followUp = "sure"
                           THEN << AreYouSure >> \o rest
                           ELSE rest]

\* the page the target button navigates to
DonePage == [url |-> "/done", buttons |-> << >>, fields |-> << >>, modals |-> << >>]

Out(ok, p) == [ok |-> ok, page |-> p]

\* can the driver act on the element: present, visible and enabled
FillableField(p, sel) ==
  IF sel.scope = "dialog"
  THEN /\ DialogOf(p, sel) # 0
       /\ ~p.modals[DialogOf(p, sel)].inputs[InputOf(p.modals[DialogOf(p, sel)], sel)].disabled
  ELSE \E k \in 1..Len(p.fields) :
         p.fields[k].selector = sel /\ p.fields[k].visible /\ ~p.fields[k].disabled

ClickableDialog(p, sel) ==
  FindIdx(p.modals, LAMBDA d :
    \E k \in 1..Len(d.buttons) : d.buttons[k].selector = sel /\ ~d.buttons[k].disabled)

ClickablePage(p, sel) ==
  \E k \in 1..Len(p.buttons) : p.buttons[k].selector = sel /\ ~p.buttons[k].disabled

\* executeAction against the page: the outcomes a page can produce;
\* ok = FALSE is a thrown error, which leaves the page as it was
ExecOutcomes(p, a) ==
  {Out(FALSE, p)} \cup
  CASE a.type = "fill" ->
         IF a.selector = NoSel \/ a.value = "" \/ ~FillableField(p, a.selector) THEN {}
         ELSE IF a.selector.scope = "dialog"
         THEN {Out(TRUE, WriteDialogField(p, a.selector, a.value))}
         ELSE {Out(TRUE, WritePageField(p, a.selector, a.value)),
               Out(TRUE, EnableButtons(WritePageField(p, a.selector, a.value))),
               Out(TRUE, p)}
    [] a.type = "click" ->
         IF a.selector.scope = "dialog"
         THEN IF ClickableDialog(p, a.selector) = 0 THEN {}
              ELSE {Out(TRUE, CloseDialog(p, ClickableDialog(p, a.selector), TRUE))}
         ELSE IF ~ClickablePage(p, a.selector) THEN {}
              ELSE {Out(TRUE, p), Out(TRUE, DonePage)} \cup
                   {Out(TRUE, [p EXCEPT !.modals = << d >>]) :
                      d \in IF Len(p.modals) = 0 THEN {AreYouSure, TypeToDelete} ELSE {}}
    [] a.type = "escape" ->
         {Out(TRUE, p)} \cup
         (IF Len(p.modals) > 0 THEN {Out(TRUE, CloseDialog(p, 1, FALSE))} ELSE {})
    [] a.type = "tab" ->
         {Out(TRUE, p), Out(TRUE, EnableButtons(p))}
    [] OTHER -> {}

\* ------------------------------------------------------- inputs of the runs
F1 == Sel("page", "f1")
F2 == Sel("page", "f2")

\* form layouts of the pages under test
Layouts ==
  { << >>,
    << Inp("name", TRUE, FALSE, TRUE, "", F1) >>,
    << Inp("memo", FALSE, FALSE, TRUE, "", F1) >>,
    << Inp("email", TRUE, FALSE, TRUE, "a@b.c", F1) >>,
    << Inp("channel name", TRUE, FALSE, FALSE, "", F1) >>,
    << Inp("memo", FALSE, FALSE, TRUE, "", F1), Inp("name", TRUE, FALSE, TRUE, "", F2) >>,
    << Inp("campaign name", TRUE, TRUE, TRUE, "", F1), Inp("memo", FALSE, FALSE, TRUE, "", F2) >>,
    << Inp("email", TRUE, FALSE, TRUE, "a@b.c", F1), Inp("memo", FALSE, FALSE, TRUE, "", F2) >> }

SubmitSel == Sel("page", "submit")

ButtonLayouts ==
  { << >>,
    << Btn("submit", FALSE, SubmitSel) >>,
    << Btn("submit", TRUE, SubmitSel) >> }

ModalLayouts ==
  { << >>, << TypeToDelete >>, << AreYouSure >>, << Notice >>, << NameDialog >>,
    << PairDialog >> }

\* pages the run starts on: every form page, and pages on which the
\* success indicator already holds
InitPages ==
  { [url |-> "/form", buttons |-> b, fields |-> f, modals |-> m] :
      b \in ButtonLayouts, f \in Layouts, m \in ModalLayouts }
  \cup
  { [url |-> "/done", buttons |-> b, fields |-> f, modals |-> m] :
      b \in ButtonLayouts,
      f \in { << >>, << Inp("name", TRUE, FALSE, TRUE, "", F1) >> },
      m \in { << >>, << Notice >> } }

\* goals given to execute(): with and without target, success indicator,
\* requiredFields and explicit field instructions
Goals ==
  { [targetButton |-> t, successIndicator |-> s, requiredFields |-> r,
     fieldInstructions |-> << >>] :
      t \in {"", "submit"}, s \in {"", "/done"}, r \in {<< >>, << "memo" >>} }
  \cup
  { [targetButton |-> t, successIndicator |-> s, requiredFields |-> << >>,
     fieldInstructions |-> fi] :
      t \in {"", "submit"}, s \in {"", "/done"},
      fi \in { << Instr(F1, "instructed", TRUE) >>,
               << Instr(F2, "instructed", FALSE) >> } }

NoGoal ==
  [targetButton |-> "", successIndicator |-> "", requiredFields |-> << >>,
   fieldInstructions |-> << >>]

Result(success, error) == [success |-> success, error |-> error]
NoResult == Result(FALSE, "pending")

Step(n, action, success, error) ==
  [step |-> n, action |-> action, success |-> success, error |-> error]

\* --------------------------------------------------------- AutoPilot.execute
Init ==
  /\ page \in InitPages
  /\ config \in { [maxSteps |-> MaxSteps, maxRetries |-> DefaultMaxRetries,
                   retryOnError |-> c[1], strictMode |-> c[2]] :
                     c \in { <<TRUE, FALSE>>, <<FALSE, FALSE>>, <<TRUE, TRUE>> } }
  /\ pc = "idle"
  /\ goal = NoGoal
  /\ currentStep = 0
  /\ retryCount = 0
  /\ steps = << >>
  /\ result = NoResult
  /\ processedInstructions = {}
  /\ actionHistory = << >>
  /\ stateSnapshots = << >>
  /\ fieldStrategies = DefaultStrategies
  /\ recorded = << >>
  /\ ih = [pc |-> "unused"]
  /\ dd = [pc |-> "unused"]
  /\ er = [pc |-> "unused"]
  /\ ea = [pc |-> "unused"]
  /\ other = [pc |-> "unused"]
  /\ ws = [pc |-> "unused"]
  /\ pa = [pc |-> "unused"]
  /\ ce = [pc |-> "unused"]
  /\ fa = [pc |-> "unused"]

\* mutant of LoopCond: off-by-one loop bound
LoopCondOffByOne == currentStep <= config.maxSteps

\* while (currentStep < this.config.maxSteps)
LoopCond == currentStep < config.maxSteps

\* mutant of MayRetry: off-by-one comparison
MayRetryOffByOne == config.retryOnError /\ retryCount <= config.maxRetries

\* retryOnError && retryCount < maxRetries
MayRetry == config.retryOnError /\ retryCount < config.maxRetries

\* mutant of ExploreExhausted: off-by-one comparison
ExploreExhaustedOffByOne == retryCount > config.maxRetries

\* if (retryCount >= this.config.maxRetries) in the Explore branch
ExploreExhausted == retryCount >= config.maxRetries

\* what the iteration that starts now computes before it acts
Pni ==
  IF Len(goal.fieldInstructions) > 0
  THEN processNextInstruction(goal, page, processedInstructions, 1)
  ELSE [action |-> NoAction, processed |-> processedInstructions]

Decided == decideNextAction(goal, page, actionHistory, fieldStrategies)

\* the ExecutionResult of each return statement of execute()
ReturnDone == Result(TRUE, "")
\* mutant of ReturnBlocked: the Blocked reason is not passed on as the error
ReturnBlockedNoReason(action) == Result(FALSE, "")
ReturnBlocked(action) == Result(FALSE, action.reason)
ReturnExplore == Result(FALSE, "cannot-determine-condition")
ReturnMaxSteps == Result(FALSE, "max-steps-exceeded")
ReturnCatch == Result(FALSE, "exception")

\* mutant of recordAction: unshift in place of push
recordActionUnshift(history, action) == << action >> \o history

\* recordAction
recordAction(history, action) == Append(history, action)

\* execute(g) is entered: the locals and the processed set are reset
ExecuteGoal(g) ==
  /\ goal' = g
  /\ pc' = "running"
  /\ currentStep' = 0
  /\ retryCount' = 0
  /\ steps' = << >>
  /\ processedInstructions' = {}
  /\ UNCHANGED <<page, config, result, actionHistory, stateSnapshots,
                 fieldStrategies, recorded, ih, dd, er, ea, other, ws, pa, ce, fa>>

\* execute(goal) is called with any of the goals
Execute ==
  /\ pc = "idle"
  /\ \E g \in Goals : ExecuteGoal(g)

\* an iteration that executes the Fill of an explicit field instruction
StepInstruction ==
  /\ pc = "running" /\ LoopCond
  /\ Pni.action # NoAction
  /\ \E out \in ExecOutcomes(page, Pni.action) :
       /\ page' = out.page
       /\ steps' = Append(steps, Step(currentStep + 1, Pni.action, out.ok,
                                      IF out.ok THEN "" ELSE "execution-failed"))
       /\ retryCount' = IF out.ok THEN 0 ELSE retryCount
  /\ currentStep' = currentStep + 1
  /\ processedInstructions' = Pni.processed
  /\ actionHistory' = recordAction(actionHistory, Pni.action)
  /\ UNCHANGED <<config, pc, goal, result, stateSnapshots, fieldStrategies,
                 recorded, ih, dd, er, ea, other, ws, pa, ce, fa>>

\* an iteration in which the Decision Engine answers Done
StepDone ==
  /\ pc = "running" /\ LoopCond
  /\ Pni.action = NoAction
  /\ Decided.type = "done"
  /\ currentStep' = currentStep + 1
  /\ processedInstructions' = Pni.processed
  /\ steps' = Append(steps, Step(currentStep + 1, Decided, TRUE, ""))
  /\ result' = ReturnDone
  /\ pc' = "ret_done"
  /\ UNCHANGED <<page, config, goal, retryCount, actionHistory, stateSnapshots,
                 fieldStrategies, recorded, ih, dd, er, ea, other, ws, pa, ce, fa>>

\* an iteration in which the Decision Engine answers Blocked
StepBlocked ==
  /\ pc = "running" /\ LoopCond
  /\ Pni.action = NoAction
  /\ Decided.type = "blocked"
  /\ currentStep' = currentStep + 1
  /\ processedInstructions' = Pni.processed
  /\ steps' = Append(steps, Step(currentStep + 1, Decided, FALSE, Decided.reason))
  /\ IF MayRetry
     THEN /\ retryCount' = retryCount + 1
          /\ UNCHANGED <<pc, result>>
     ELSE /\ result' = ReturnBlocked(Decided)
          /\ pc' = "ret_blocked"
          /\ UNCHANGED retryCount
  /\ UNCHANGED <<page, config, goal, actionHistory, stateSnapshots,
                 fieldStrategies, recorded, ih, dd, er, ea, other, ws, pa, ce, fa>>

\* an iteration in which the Decision Engine answers Explore
StepExplore ==
  /\ pc = "running" /\ LoopCond
  /\ Pni.action = NoAction
  /\ Decided.type = "explore"
  /\ currentStep' = currentStep + 1
  /\ processedInstructions' = Pni.processed
  /\ steps' = Append(steps, Step(currentStep + 1, Decided, TRUE, ""))
  /\ IF ExploreExhausted
     THEN /\ result' = ReturnExplore
          /\ pc' = "ret_explore"
          /\ UNCHANGED retryCount
     ELSE /\ retryCount' = retryCount + 1
          /\ UNCHANGED <<pc, result>>
  /\ UNCHANGED <<page, config, goal, actionHistory, stateSnapshots,
                 fieldStrategies, recorded, ih, dd, er, ea, other, ws, pa, ce, fa>>

\* the retry counter after a step whose execution succeeded or threw
RetryAfter(ok) ==
  IF ok THEN 0
  ELSE IF MayRetry THEN retryCount + 1 ELSE retryCount

\* an iteration that executes the decided action (fill, click, tab, escape)
StepExecute ==
  /\ pc = "running" /\ LoopCond
  /\ Pni.action = NoAction
  /\ Decided.type \notin {"done", "blocked", "explore"}
  /\ \E out \in ExecOutcomes(page, Decided) :
       /\ page' = out.page
       /\ steps' = Append(steps, Step(currentStep + 1, Decided, out.ok,
                                      IF out.ok THEN "" ELSE "execution-failed"))
       /\ retryCount' = RetryAfter(out.ok)
  /\ currentStep' = currentStep + 1
  /\ processedInstructions' = Pni.processed
  /\ actionHistory' = recordAction(actionHistory, Decided)
  /\ UNCHANGED <<config, pc, goal, result, stateSnapshots, fieldStrategies,
                 recorded, ih, dd, er, ea, other, ws, pa, ce, fa>>

\* an iteration whose executeAction throws because the browser connection is
\* lost: the inner catch records the step as failed and counts a retry, the
\* action is recorded, and the delay after the step, a call on the lost
\* page, throws to the catch of execute()
StepConnectionLost ==
  /\ pc = "running" /\ LoopCond
  /\ Pni.action = NoAction
  /\ Decided.type \notin {"done", "blocked", "explore"}
  /\ steps' = Append(steps, Step(currentStep + 1, Decided, FALSE, "connection-lost"))
  /\ retryCount' = RetryAfter(FALSE)
  /\ currentStep' = currentStep + 1
  /\ processedInstructions' = Pni.processed
  /\ actionHistory' = recordAction(actionHistory, Decided)
  /\ result' = ReturnCatch
  /\ pc' = "ret_catch"
  /\ UNCHANGED <<page, config, goal, stateSnapshots, fieldStrategies,
                 recorded, ih, dd, er, ea, other, ws, pa, ce, fa>>

\* the loop condition fails: the step budget is used up
LoopExit ==
  /\ pc = "running" /\ ~LoopCond
  /\ result' = ReturnMaxSteps
  /\ pc' = "ret_maxsteps"
  /\ UNCHANGED <<page, config, goal, currentStep, retryCount, steps,
                 processedInstructions, actionHistory, stateSnapshots,
                 fieldStrategies, recorded, ih, dd, er, ea, other, ws, pa, ce, fa>>

\* an error thrown outside the inner try (page analysis, a wait, the final
\* state capture) reaches the catch of execute()
CatchError ==
  /\ pc = "running"
  /\ result' = ReturnCatch
  /\ pc' = "ret_catch"
  /\ UNCHANGED <<page, config, goal, currentStep, retryCount, steps,
                 processedInstructions, actionHistory, stateSnapshots,
                 fieldStrategies, recorded, ih, dd, er, ea, other, ws, pa, ce, fa>>

Next ==
  \/ Execute
  \/ StepInstruction
  \/ StepDone
  \/ StepBlocked
  \/ StepExplore
  \/ StepExecute
  \/ StepConnectionLost
  \/ LoopExit
  \/ CatchError

Spec == Init /\ [][Next]_vars

\* ===================================================== properties of the run
Returned == pc \in {"ret_done", "ret_blocked", "ret_explore", "ret_maxsteps", "ret_catch"}

Last(s) == s[Len(s)]

\* a step that went through executeAction
IsExecution(st) == st.action.type \in {"fill", "click", "tab", "escape"}

\* C1: one execute() call runs at most maxSteps iterations and so holds at
\* most maxSteps step records, whatever the goal and the page do
C1_AtMostMaxSteps ==
  /\ currentStep <= config.maxSteps
  /\ Len(steps) <= config.maxSteps

C1_Witness == pc = "ret_maxsteps" /\ Len(steps) = config.maxSteps

\* C2 as stated: a call that has returned ended on Done (success), on
\* Blocked (failure, the Blocked reason as error), on the exhausted step
\* budget (failure) or on an exception (failure), and in no other way
EndedDone ==
  /\ result.success
  /\ Len(steps) > 0 /\ Last(steps).action.type = "done"

EndedBlocked ==
  /\ ~result.success
  /\ Len(steps) > 0 /\ Last(steps).action.type = "blocked"
  /\ result.error = Last(steps).action.reason

EndedMaxSteps ==
  /\ ~result.success
  /\ result.error = "max-steps-exceeded"
  /\ currentStep = config.maxSteps

EndedException ==
  /\ ~result.success
  /\ result.error = "exception"

EndedExplore ==
  /\ ~result.success
  /\ Len(steps) > 0 /\ Last(steps).action.type = "explore"
  /\ result.error = "cannot-determine-condition"
  /\ retryCount >= config.maxRetries

C2_FourEndings ==
  Returned => (EndedDone \/ EndedBlocked \/ EndedMaxSteps \/ EndedException)

\* C2 amended: a call that has returned ended in exactly one of five ways:
\* the four above or Explore exhaustion (an Explore decision with the retry
\* counter at maxRetries: failure, "cannot determine" error)
C2_FiveEndings ==
  Returned =>
    Cardinality({ w \in {"done", "blocked", "maxsteps", "exception", "explore"} :
      \/ w = "done" /\ EndedDone
      \/ w = "blocked" /\ EndedBlocked
      \/ w = "maxsteps" /\ EndedMaxSteps
      \/ w = "exception" /\ EndedException
      \/ w = "explore" /\ EndedExplore }) = 1

C2_Witness == pc = "ret_explore" /\ EndedExplore

\* steps i-n+1 .. i are n failed executions in a row
FailedStreak(i, n) ==
  /\ i >= n
  /\ \A k \in (i - n + 1)..i : IsExecution(steps[k]) /\ ~steps[k].success

\* C3: once more than maxRetries executions in a row have failed, the run
\* ends as Blocked there: no further step follows such a streak
C3_EscalatesAfterRetries ==
  \A i \in 1..Len(steps) :
    FailedStreak(i, config.maxRetries + 1) =>
      /\ i = Len(steps)
      /\ pc # "running"

Min(a, b) == IF a < b THEN a ELSE b

ExecutedCount == Cardinality({ i \in 1..Len(steps) : IsExecution(steps[i]) })

\* C4: after each executed action of a run a state digest is appended to
\* the digest history (which keeps the latest maxSnapshotHistory digests)
C4_DigestAfterEachAction ==
  Len(stateSnapshots) >= Min(ExecutedCount, maxSnapshotHistory)

\* ------------------------------------------------ first and later decisions
\* the goal's target control on the page: the first page button whose text
\* includes goal.targetButton; 0 when absent
TargetIdx(p, g) ==
  IF g.targetButton = "" THEN 0
  ELSE FindIdx(p.buttons, LAMBDA b : Includes(b.text, g.targetButton))

TargetEnabled(p, g) == TargetIdx(p, g) # 0 /\ ~p.buttons[TargetIdx(p, g)].disabled
TargetDisabled(p, g) == TargetIdx(p, g) # 0 /\ p.buttons[TargetIdx(p, g)].disabled

IsClickOnTarget(a, p, g) ==
  a.type = "click" /\ a.selector = p.buttons[TargetIdx(p, g)].selector

SuccessHolds(p, g) == g.successIndicator # "" /\ Includes(p.url, g.successIndicator)

\* this transition is iteration n of the loop and appended step n
TakesStep(n) == pc = "running" /\ currentStep = n - 1 /\ Len(steps') = n

EmptyRequired(p) ==
  { k \in 1..Len(p.fields) : p.fields[k].required /\ p.fields[k].value = "" }

TheEmptyRequired(p) == CHOOSE k \in EmptyRequired(p) : TRUE

IsFillOn(a, f) == a.type = "fill" /\ a.selector = f.selector /\ a.value # ""

\* the first step was a successful Fill of a required field that now holds
\* the value, and no required field is left empty
FilledTheRequired(p) ==
  /\ Len(steps) = 1 /\ steps[1].success /\ steps[1].action.type = "fill"
  /\ EmptyRequired(p) = {}
  /\ \E k \in 1..Len(p.fields) :
       /\ p.fields[k].selector = steps[1].action.selector
       /\ p.fields[k].required
       /\ p.fields[k].value = steps[1].action.value

NamesNoOther(p, g, k) ==
  \A r \in 1..Len(g.requiredFields) : \A j \in 1..Len(p.fields) :
    (j # k /\ EmptyNamed(p.fields[j], g.requiredFields[r])) => FALSE

\* the decision is left to the generic scan of the Decision Engine
PlainDecision(p, g) ==
  /\ Len(p.modals) = 0
  /\ Len(g.fieldInstructions) = 0
  /\ ~SuccessHolds(p, g)

IsFillOnModalInput(a, p, k) ==
  /\ a.type = "fill" /\ a.value # ""
  /\ DialogOf(p, a.selector) = 1
  /\ InputOf(p.modals[1], a.selector) = k

\* the action that resolves the first open modal of page p
ResolvesModal(a, p) ==
  LET d == p.modals[1]
      empties  == { k \in 1..Len(d.inputs) : d.inputs[k].value = "" }
      confirms == { k \in 1..Len(d.buttons) :
                      ~d.buttons[k].disabled /\ ConfirmLike(d.buttons[k].text) }
  IN  IF empties # {}
      THEN \E k \in empties :
             /\ \A j \in empties : k <= j
             /\ IsFillOnModalInput(a, p, k)
      ELSE IF confirms # {}
      THEN \E k \in confirms :
             /\ \A j \in confirms : k <= j
             /\ a.type = "click" /\ a.selector = d.buttons[k].selector
      ELSE a.type = "escape"

\* this transition appended a step decided by the Decision Engine
DecidedStep ==
  /\ pc = "running"
  /\ Len(steps') = Len(steps) + 1
  /\ Last(steps').action.reason # "instruction"

\* C9: whenever a modal is open, the action the Decision Engine chooses is
\* Fill on the modal's first empty field, else Click on its first enabled
\* confirm-like button, else Escape; never Done, a target Click or a
\* page-level Fill
C9_ModalFirst ==
  [][ (DecidedStep /\ Len(page.modals) > 0)
        => ResolvesModal(Last(steps').action, page) ]_vars

HasTypeToConfirm(p) == \E m \in 1..Len(p.modals) : p.modals[m].requires # ""

\* C10: a run without caller-supplied instructions that meets the two-step
\* confirmation leaves the type-to-confirm modal through its confirm
\* button (and so goes on to the second modal)
C10_TwoStepConfirmation ==
  [][ (/\ pc = "running"
       /\ Len(goal.fieldInstructions) = 0
       /\ HasTypeToConfirm(page) /\ ~HasTypeToConfirm(page'))
        => (/\ Last(steps').action.type = "click"
            /\ Last(steps').action.selector = Sel("dialog", "delete")) ]_vars

\* ============================================ ActionDecider: stuck detection
\* the hash of recordStateSnapshot: url | empty count | filled count |
\* target disabled flag or 'na'
SnapshotHash(p, g) ==
  LET state == analyze(p)
      form  == state.forms[1]
      t == IF g.targetButton = "" THEN 0
           ELSE FindIdx(state.buttons, LAMBDA b : Includes(b.text, g.targetButton))
      emptyFieldCount ==
        Len(FilterSeq(form.inputs, LAMBDA i : i.value = "" /\ i.visible /\ ~i.disabled))
      filledFieldCount ==
        Len(FilterSeq(form.inputs, LAMBDA i : i.value # "" /\ i.visible))
  IN  [url |-> state.url,
       emptyFieldCount |-> emptyFieldCount,
       filledFieldCount |-> filledFieldCount,
       targetButtonEnabled |-> IF t # 0 THEN ~state.buttons[t].disabled ELSE FALSE,
       hash |-> << state.url, emptyFieldCount, filledFieldCount,
                   IF t # 0 THEN (IF state.buttons[t].disabled THEN "true" ELSE "false")
                   ELSE "na" >>]

\* mutant of PushSnapshot: the newest entry is dropped in place of the oldest
PushSnapshotDropsNewest(snaps, snap) ==
  LET pushed == Append(snaps, snap)
  IN  IF Len(pushed) > maxSnapshotHistory THEN SubSeq(pushed, 1, Len(pushed) - 1) ELSE pushed

\* the history after push and the shift that keeps maxSnapshotHistory entries
PushSnapshot(snaps, snap) ==
  LET pushed == Append(snaps, snap)
  IN  IF Len(pushed) > maxSnapshotHistory THEN Tail(pushed) ELSE pushed

\* the backward loop of detectStuckState: entries equal to the last one,
\* counted from position i down while they match
RECURSIVE ConsecutiveSame(_, _)
ConsecutiveSame(snaps, i) ==
  IF i < 1 THEN 0
  ELSE IF snaps[i].hash = snaps[Len(snaps)].hash
  THEN 1 + ConsecutiveSame(snaps, i - 1)
  ELSE 0

\* mutant of detectStuckState: the length guard is missing
detectStuckStateNoGuard(snaps) ==
  LET n == Len(snaps)
      recent == SubSeq(snaps, IF n > stuckThreshold THEN n - stuckThreshold + 1 ELSE 1, n)
      allSame == \A k \in 1..Len(recent) : recent[k].hash = recent[1].hash
      count == 1 + ConsecutiveSame(snaps, n - 1)
  IN  IF allSame
      THEN [isStuck |-> TRUE, consecutiveSameStates |-> stuckThreshold]
      ELSE [isStuck |-> count >= stuckThreshold, consecutiveSameStates |-> count]

\* detectStuckState
detectStuckState(snaps) ==
  LET n == Len(snaps)
      recent == SubSeq(snaps, n - stuckThreshold + 1, n)
      allSame == \A k \in 1..Len(recent) : recent[k].hash = recent[1].hash
      count == 1 + ConsecutiveSame(snaps, n - 1)
  IN  IF n < stuckThreshold
      THEN [isStuck |-> FALSE, consecutiveSameStates |-> 0]
      ELSE IF allSame
      THEN [isStuck |-> TRUE, consecutiveSameStates |-> stuckThreshold]
      ELSE [isStuck |-> count >= stuckThreshold, consecutiveSameStates |-> count]

\* the form the snapshots are taken of, in its states
SnapPages ==
  { [url |-> "/form",
     buttons |-> << Btn("submit", TRUE, SubmitSel) >>,
     fields |-> << Inp("name", TRUE, FALSE, TRUE, "", F1),
                   Inp("memo", FALSE, FALSE, TRUE, "", F2) >>,
     modals |-> << >>],
    [url |-> "/form",
     buttons |-> << Btn("submit", FALSE, SubmitSel) >>,
     fields |-> << Inp("name", TRUE, FALSE, TRUE, "x", F1),
                   Inp("memo", FALSE, FALSE, TRUE, "", F2) >>,
     modals |-> << >>] }

SnapGoals ==
  { [NoGoal EXCEPT !.targetButton = t] : t \in {"", "submit"} }

InitSnap ==
  /\ page \in SnapPages
  /\ goal \in SnapGoals
  /\ config = [maxSteps |-> MaxSteps, maxRetries |-> DefaultMaxRetries,
               retryOnError |-> TRUE, strictMode |-> FALSE]
  /\ pc = "idle"
  /\ currentStep = 0
  /\ retryCount = 0
  /\ steps = << >>
  /\ result = NoResult
  /\ processedInstructions = {}
  /\ actionHistory = << >>
  /\ stateSnapshots = << >>
  /\ fieldStrategies = DefaultStrategies
  /\ recorded = << >>
  /\ ih = [pc |-> "unused"]
  /\ dd = [pc |-> "unused"]
  /\ er = [pc |-> "unused"]
  /\ ea = [pc |-> "unused"]
  /\ other = [pc |-> "unused"]
  /\ ws = [pc |-> "unused"]
  /\ pa = [pc |-> "unused"]
  /\ ce = [pc |-> "unused"]
  /\ fa = [pc |-> "unused"]

\* recordStateSnapshot(goal)
recordStateSnapshot ==
  /\ Len(recorded) < MaxRecords
  /\ stateSnapshots' = PushSnapshot(stateSnapshots, SnapshotHash(page, goal))
  /\ recorded' = Append(recorded, SnapshotHash(page, goal))
  /\ UNCHANGED <<page, config, pc, goal, currentStep, retryCount, steps, result,
                 processedInstructions, actionHistory, fieldStrategies, ih, dd, er, ea, other, ws, pa, ce, fa>>

\* the page moves to another state between two snapshots
SnapPageChanges ==
  /\ \E q \in SnapPages : q # page /\ page' = q
  /\ UNCHANGED <<config, pc, goal, currentStep, retryCount, steps, result,
                 processedInstructions, actionHistory, stateSnapshots,
                 fieldStrategies, recorded, ih, dd, er, ea, other, ws, pa, ce, fa>>

NextSnap == recordStateSnapshot \/ SnapPageChanges

SpecSnap == InitSnap /\ [][NextSnap]_vars

LastThreeSame(snaps) ==
  /\ Len(snaps) >= 3
  /\ snaps[Len(snaps)].hash = snaps[Len(snaps) - 1].hash
  /\ snaps[Len(snaps)].hash = snaps[Len(snaps) - 2].hash

\* C5: detectStuckState reports isStuck exactly when at least three digests
\* are recorded and the three most recent are identical
C5_StuckIffLastThreeSame ==
  detectStuckState(stateSnapshots).isStuck <=> LastThreeSame(stateSnapshots)

C5_Witness ==
  /\ Len(stateSnapshots) >= 4
  /\ detectStuckState(stateSnapshots).isStuck
  /\ stateSnapshots[Len(stateSnapshots) - 3].hash # stateSnapshots[Len(stateSnapshots)].hash

\* ====================================== InteractionHandler: fillField chain
\* values requested of fillField
Requested == {"abc", "2024-01-15"}

\* what the field can hold afterwards: nothing, the requested value, or a
\* text the page made of it (reformatted, an option's own text or value)
FieldVals(req) == {"", req, "other"}

IResult(success, method, finalValue) ==
  [success |-> success, method |-> method, finalValue |-> finalValue]

NoIResult == IResult(FALSE, "pending", "")

InitInteract ==
  /\ ih \in { [pc |-> "start", fieldType |-> t, requested |-> r,
               field |-> [value |-> v, attr |-> a],
               attempt |-> 0, retries |-> DefaultMaxRetries,
               result |-> NoIResult] :
                t \in {"text", "dropdown", "combobox", "datepicker"},
                r \in Requested,
                v \in {"", "other"}, a \in {"", "abc", "2024-01-15"} }
  /\ dd = [pc |-> "unused"]
  /\ er = [pc |-> "unused"]
  /\ ea = [pc |-> "unused"]
  /\ other = [pc |-> "unused"]
  /\ ws = [pc |-> "unused"]
  /\ pa = [pc |-> "unused"]
  /\ ce = [pc |-> "unused"]
  /\ fa = [pc |-> "unused"]
  /\ page = [url |-> "/form", buttons |-> << >>, fields |-> << >>, modals |-> << >>]
  /\ goal = NoGoal
  /\ config = [maxSteps |-> MaxSteps, maxRetries |-> DefaultMaxRetries,
               retryOnError |-> TRUE, strictMode |-> FALSE]
  /\ pc = "idle"
  /\ currentStep = 0
  /\ retryCount = 0
  /\ steps = << >>
  /\ result = NoResult
  /\ processedInstructions = {}
  /\ actionHistory = << >>
  /\ stateSnapshots = << >>
  /\ fieldStrategies = DefaultStrategies
  /\ recorded = << >>

IhFrame ==
  UNCHANGED <<page, config, pc, goal, currentStep, retryCount, steps, result,
              processedInstructions, actionHistory, stateSnapshots,
              fieldStrategies, recorded, dd, er, ea, other, ws, pa, ce, fa>>

\* fillField: the switch on fieldType
fillField ==
  /\ ih.pc = "start"
  /\ ih' = [ih EXCEPT !.pc = CASE ih.fieldType = "dropdown" -> "handleDropdown"
                               [] ih.fieldType = "combobox" -> "handleCombobox"
                               [] ih.fieldType = "datepicker" -> "handleDatepicker"
                               [] OTHER -> "handleTextInput",
                      !.attempt = 1]
  /\ IhFrame

\* waitForValuePersistence: the live value, or the value attribute, equals
\* the expected value at some poll
waitForValuePersistence(field, expected) ==
  field.value = expected \/ field.attr = expected

\* handleTextInput: click, clear, type, blur, verify; on a failed
\* verification Tab and an outside click, then one re-read
handleTextInput ==
  /\ ih.pc = "handleTextInput"
  /\ \E thrown \in BOOLEAN, afterBlur, afterRetry \in FieldVals(ih.requested) :
       LET typed == [ih.field EXCEPT !.value = afterBlur]
           again == [ih.field EXCEPT !.value = afterRetry]
       IN  ih' =
             IF thrown
             THEN [ih EXCEPT !.pc = "returned",
                             !.result = IResult(FALSE, "text-input", "")]
             ELSE IF waitForValuePersistence(typed, ih.requested)
             THEN [ih EXCEPT !.pc = "returned", !.field = typed,
                             !.result = IResult(TRUE, "text-input", ih.requested)]
             ELSE IF afterRetry # ih.requested
             THEN [ih EXCEPT !.pc = "returned", !.field = again,
                             !.result = IResult(FALSE, "text-input", afterRetry)]
             ELSE [ih EXCEPT !.pc = "returned", !.field = again,
                             !.result = IResult(TRUE, "text-input", ih.requested)]
  /\ IhFrame

\* handleDropdown, method 1: a native select takes selectOption({label})
\* and success is returned; otherwise the click loop follows
handleDropdown ==
  /\ ih.pc = "handleDropdown"
  /\ \/ \E v \in {ih.requested, "other"} :
          ih' = [ih EXCEPT !.pc = "returned", !.field.value = v,
                           !.result = IResult(TRUE, "native-select", ih.requested)]
     \/ ih' = [ih EXCEPT !.pc = "dropdownLoop"]
  /\ IhFrame

\* the state after a failed attempt of a for (attempt <= retries) loop
NextAttempt(h, method) ==
  IF h.attempt >= h.retries
  THEN [h EXCEPT !.pc = "returned", !.result = IResult(FALSE, method, "")]
  ELSE [h EXCEPT !.attempt = h.attempt + 1]

\* handleDropdown, method 2: one attempt of the loop: open the dropdown and
\* click the first visible option that has the text
handleDropdownAttempt ==
  /\ ih.pc = "dropdownLoop"
  /\ \/ \E v \in {ih.requested, "other"} :
          ih' = [ih EXCEPT !.pc = "returned", !.field.value = v,
                           !.result = IResult(TRUE, "dropdown-option", ih.requested)]
     \/ ih' = NextAttempt(ih, "dropdown-click")
  /\ IhFrame

\* tryComboboxSelection: the first method that applies, and the values the
\* field can hold after it
ComboboxMethods(req) ==
  { [method |-> "option-click", value |-> v] : v \in {req, "other"} } \cup
  { [method |-> "add-button-click", value |-> v] : v \in {req, "other"} } \cup
  { [method |-> "enter-key", value |-> v] : v \in FieldVals(req) } \cup
  { [method |-> "tab-blur", value |-> v] : v \in FieldVals(req) }

\* handleCombobox: one attempt of the loop: type the value, then
\* tryComboboxSelection; a selection that reports success ends the call
handleCombobox ==
  /\ ih.pc = "handleCombobox"
  /\ \/ \E m \in ComboboxMethods(ih.requested) :
          ih' = [ih EXCEPT !.pc = "returned", !.field.value = m.value,
                           !.result = IResult(TRUE, m.method, ih.requested)]
     \/ ih' = NextAttempt(ih, "combobox")
  /\ IhFrame

\* handleDatepicker: fill, re-read, and on a mismatch click, clear, type and
\* Escape; success is returned after either path
handleDatepicker ==
  /\ ih.pc = "handleDatepicker"
  /\ \E thrown \in BOOLEAN, afterFill, afterType \in FieldVals(ih.requested) :
       ih' =
         IF thrown
         THEN [ih EXCEPT !.pc = "returned",
                         !.result = IResult(FALSE, "datepicker-fill", "")]
         ELSE [ih EXCEPT !.pc = "returned",
                         !.field.value = IF afterFill = ih.requested
                                         THEN afterFill ELSE afterType,
                         !.result = IResult(TRUE, "datepicker-fill", ih.requested)]
  /\ IhFrame

NextInteract ==
  \/ fillField
  \/ handleTextInput
  \/ handleDropdown
  \/ handleDropdownAttempt
  \/ handleCombobox
  \/ handleDatepicker

SpecInteract == InitInteract /\ [][NextInteract]_vars

\* C6: whenever fillField reports success for a text, dropdown, combobox or
\* date field, the field read back right then holds the requested value
C6_SuccessMeansPersisted ==
  (ih.pc = "returned" /\ ih.result.success) => ih.field.value = ih.requested

ExploreStreak(i, n) ==
  /\ i >= n
  /\ \A k \in (i - n + 1)..i : steps[k].action.type = "explore"

\* C12: Explore steps in a row are bounded: the (maxRetries+1)-th Explore
\* step in a row is the last step of the run, which then has failed with the
\* "cannot determine the condition" error instead of going on to maxSteps
C12_ExploreBounded ==
  \A i \in 1..Len(steps) :
    ExploreStreak(i, config.maxRetries + 1) =>
      /\ i = Len(steps)
      /\ pc = "ret_explore"
      /\ result = Result(FALSE, "cannot-determine-condition")

C12_Witness ==
  /\ pc = "ret_explore"
  /\ Len(steps) = config.maxRetries + 1
  /\ ExploreStreak(Len(steps), config.maxRetries + 1)
  /\ Len(steps) < config.maxSteps

\* ============================================================ action history
\* the actions of this run that went through executeAction, in step order
ExecutedActions ==
  LET ex == SelectSeq(steps, IsExecution)
  IN  [k \in 1..Len(ex) |-> ex[k].action]

\* C13: whenever the Decision Engine is about to be asked, the action history
\* ends with exactly the actions this run has executed so far, in order,
\* failed executions included
C13_ExecutedActionsRecorded ==
  LET n == Len(ExecutedActions)
      h == Len(actionHistory)
  IN  /\ h >= n
      /\ \A k \in 1..n : actionHistory[h - n + k] = ExecutedActions[k]

C13_Witness ==
  /\ pc = "running"
  /\ Len(steps) = 2
  /\ IsExecution(steps[1]) /\ ~steps[1].success
  /\ IsExecution(steps[2]) /\ steps[2].success
  /\ actionHistory = << steps[1].action, steps[2].action >>

\* ================================================================ strictMode
\* C18: with strictMode = true the run fills only fields named by explicit
\* field instructions: no step is a Fill chosen by the generic empty-field
\* scan of the Decision Engine
C18_StrictModeOnlyInstructions ==
  config.strictMode =>
    \A k \in 1..Len(steps) :
      ~(steps[k].action.type = "fill" /\ steps[k].action.reason = "field-needed")

\* ===================================== DropdownHandler: selectOrCreate chain
\* the value asked for, and labels standing for the texts of the options
\* shown after it was typed: the value itself, a longer text containing it,
\* an unrelated text, and the "<value> 추가" create affordance
DdValue == "abc"
DdOptions == {"abc", "abc def", "xyz", "abc add"}

\* :has-text("<value>") and String.includes(value)
HasText(o, v) == v = DdValue /\ o \in {"abc", "abc def", "abc add"}
\* :text-is("<value>")
TextIs(o, v) == o = v
\* has-text("<value> 추가") and the '추가' test of tryAddButton
IsCreateOption(o, v) == v = DdValue /\ o = "abc add"

DResult(success, method, selectedValue) ==
  [success |-> success, method |-> method, selectedValue |-> selectedValue]

NoDResult == DResult(FALSE, "pending", "")

\* the outcome of one selection method: the result and the option the page
\* really took ("none" when no option was taken)
Picked(res, o) == [result |-> res, picked |-> o]

\* tryEnterKey: Enter, then success when no dropdown is open any more; the
\* option Enter took, if any, is the page's choice
tryEnterKey(d, enterCloses) ==
  IF enterCloses
  THEN { Picked(DResult(TRUE, "enter-key", d.value), o) : o \in d.options \cup {"none"} }
  ELSE {}

\* trySelectOption: the first method that succeeds, in the order role option
\* click, list item click, Enter, add button (allowCreate only), Tab blur,
\* keyboard navigation
trySelectOption(d, clickThrows, enterCloses, tabCloses) ==
  LET v  == d.value
      m1 == { o \in d.options : d.role = "option" /\
                (IF d.exactMatch THEN TextIs(o, v) ELSE HasText(o, v)) }
      m2 == { o \in d.options : d.role = "li" /\ HasText(o, v) }
      ad == { o \in d.options : IsCreateOption(o, v) }
      kb == { o \in d.options : d.role = "option" /\ HasText(o, v) }
  IN  IF m1 # {} /\ ~clickThrows
      THEN { Picked(DResult(TRUE, "role-option-click", o), o) : o \in m1 }
      ELSE IF m2 # {} /\ ~clickThrows
      THEN { Picked(DResult(TRUE, "listitem-click", v), o) : o \in m2 }
      ELSE IF tryEnterKey(d, enterCloses) # {}
      THEN tryEnterKey(d, enterCloses)
      ELSE IF d.allowCreate /\ ad # {} /\ ~clickThrows
      THEN { Picked(DResult(TRUE, "add-button-click", v), o) : o \in ad }
      ELSE IF tabCloses
      THEN { Picked(DResult(TRUE, "tab-blur", v), "none") }
      ELSE IF kb # {}
      THEN { Picked(DResult(TRUE, "keyboard-navigation", o), o) : o \in kb }
      ELSE { Picked(DResult(FALSE, "failed", ""), "none") }

\* the methods trySelectOption calls, in the order of its calls
MethodOrder(d) ==
  << "role-option-click", "listitem-click", "enter-key" >>
    \o (IF d.allowCreate THEN << "add-button-click" >> ELSE << >>)
    \o << "tab-blur", "keyboard-navigation" >>

\* the methods one trySelectOption call ran: all of them when it failed,
\* those up to the one that reported success otherwise
MethodsTried(d, method) ==
  LET order == MethodOrder(d)
      k == CHOOSE j \in 0..Len(order) :
             IF method = "failed" THEN j = Len(order) ELSE j # 0 /\ order[j] = method
  IN  SubSeq(order, 1, k)

InitDropdown ==
  /\ dd \in { [pc |-> "start", value |-> DdValue, options |-> os, role |-> r,
               isSelect |-> n, allowCreate |-> c, exactMatch |-> x,
               attempt |-> 1, maxRetries |-> DefaultMaxRetries,
               picked |-> "none", tried |-> << >>, result |-> NoDResult] :
                os \in SUBSET DdOptions, r \in {"option", "li"},
                n \in BOOLEAN, c \in BOOLEAN, x \in BOOLEAN }
  /\ ih = [pc |-> "unused"]
  /\ er = [pc |-> "unused"]
  /\ ea = [pc |-> "unused"]
  /\ other = [pc |-> "unused"]
  /\ ws = [pc |-> "unused"]
  /\ pa = [pc |-> "unused"]
  /\ ce = [pc |-> "unused"]
  /\ fa = [pc |-> "unused"]
  /\ page = [url |-> "/form", buttons |-> << >>, fields |-> << >>, modals |-> << >>]
  /\ goal = NoGoal
  /\ config = [maxSteps |-> MaxSteps, maxRetries |-> DefaultMaxRetries,
               retryOnError |-> TRUE, strictMode |-> FALSE]
  /\ pc = "idle"
  /\ currentStep = 0
  /\ retryCount = 0
  /\ steps = << >>
  /\ result = NoResult
  /\ processedInstructions = {}
  /\ actionHistory = << >>
  /\ stateSnapshots = << >>
  /\ fieldStrategies = DefaultStrategies
  /\ recorded = << >>

DdFrame ==
  UNCHANGED <<page, config, pc, goal, currentStep, retryCount, steps, result,
              processedInstructions, actionHistory, stateSnapshots,
              fieldStrategies, recorded, ih, er, ea, other, ws, pa, ce, fa>>

\* selectOrCreate, step 1: a native select takes selectOption by label or by
\* value when it has such an option; otherwise the retry loop follows
selectOrCreate ==
  /\ dd.pc = "start"
  /\ dd' = IF dd.isSelect /\ dd.value \in dd.options
           THEN [dd EXCEPT !.pc = "returned", !.picked = dd.value,
                           !.result = DResult(TRUE, "native-select", dd.value)]
           ELSE [dd EXCEPT !.pc = "loop"]
  /\ DdFrame

\* selectOrCreate, step 2: one attempt of the loop: click, clear and type,
\* then trySelectOption; a native select cannot be cleared or typed into
selectOrCreateAttempt ==
  /\ dd.pc = "loop"
  /\ \E thrown, clickThrows, enterCloses, tabCloses \in BOOLEAN :
       IF thrown \/ dd.isSelect
       THEN dd' = IF dd.attempt = dd.maxRetries
                  THEN [dd EXCEPT !.pc = "returned",
                                  !.result = DResult(FALSE, "failed", "")]
                  ELSE [dd EXCEPT !.attempt = dd.attempt + 1]
       ELSE \E out \in trySelectOption(dd, clickThrows, enterCloses, tabCloses) :
              dd' = IF out.result.success
                    THEN [dd EXCEPT !.pc = "returned", !.picked = out.picked,
                                    !.tried = MethodsTried(dd, out.result.method),
                                    !.result = out.result]
                    ELSE IF dd.attempt = dd.maxRetries
                    THEN [dd EXCEPT !.pc = "returned",
                                    !.tried = MethodsTried(dd, out.result.method),
                                    !.result = DResult(FALSE, "failed", "")]
                    ELSE [dd EXCEPT !.attempt = dd.attempt + 1,
                                    !.tried = MethodsTried(dd, out.result.method)]
  /\ DdFrame

NextDropdown == selectOrCreate \/ selectOrCreateAttempt

SpecDropdown == InitDropdown /\ [][NextDropdown]_vars

\* no option shown has the requested value in its text
NoOptionMatches(d) == \A o \in d.options : ~HasText(o, d.value)

\* C15: selectOrCreate with allowCreate = false and no option matching the
\* requested value returns success = false
C15_NoFalseSuccess ==
  (dd.pc = "returned" /\ ~dd.allowCreate /\ NoOptionMatches(dd))
    => ~dd.result.success

\* ======================================== ErrorRecovery: attemptRecovery
\* the closed error taxonomy
ErrorTypes ==
  {"element-not-found", "element-not-visible", "element-not-interactable",
   "element-detached", "value-not-persisted", "timeout", "navigation-error",
   "network-error", "selector-ambiguous", "unknown"}

RStrategy(types, strategyType, priority) ==
  [errorTypes |-> types, strategyType |-> strategyType, priority |-> priority]

\* initializeStrategies: the strategy table in array order
RecoveryStrategies ==
  << RStrategy({"element-not-visible", "element-not-interactable"}, "scroll-into-view", 1),
     RStrategy({"element-not-interactable"}, "click-overlay-dismiss", 2),
     RStrategy({"element-not-found", "selector-ambiguous"}, "alternative-selector", 3),
     RStrategy({"value-not-persisted"}, "different-blur-method", 4),
     RStrategy({"timeout"}, "extend-timeout", 5),
     RStrategy({"network-error"}, "wait-for-network", 6),
     RStrategy({"element-detached"}, "retry-with-wait", 7),
     RStrategy({"element-not-found", "element-not-interactable", "unknown"}, "clear-and-retry", 8),
     RStrategy({"navigation-error", "unknown"}, "refresh-page", 10) >>

\* Array.prototype.sort((a, b) => a.priority - b.priority) of a set of
\* strategies with distinct priorities
RECURSIVE SortByPriority(_)
SortByPriority(S) ==
  IF S = {} THEN << >>
  ELSE LET m == CHOOSE x \in S : \A y \in S : x.priority <= y.priority
       IN  << m >> \o SortByPriority(S \ {m})

\* mutant of applicableStrategies: sorted by descending priority number
applicableStrategiesDescending(errorType) ==
  LET asc == SortByPriority({ RecoveryStrategies[k] : k \in
                                { j \in 1..Len(RecoveryStrategies) :
                                    errorType \in RecoveryStrategies[j].errorTypes } })
  IN  [k \in 1..Len(asc) |-> asc[Len(asc) + 1 - k]]

\* strategies.filter(s => s.errorTypes.includes(errorType)).sort(by priority)
applicableStrategies(errorType) ==
  SortByPriority({ RecoveryStrategies[k] : k \in
                     { j \in 1..Len(RecoveryStrategies) :
                         errorType \in RecoveryStrategies[j].errorTypes } })

\* an option the caller may leave unset
Opt3 == {"unset", "true", "false"}

\* options.x ?? default
OrDefault(x, default) == IF x = "unset" THEN default ELSE x = "true"

\* { ...this.defaultOptions, ...options }: the constructor's options with
\* their defaults, overridden by the options given to the call
MergedOptions(ctor, call) ==
  [maxRetries       |-> ctor.maxRetries,
   allowPageRefresh |-> OrDefault(call.allowPageRefresh,
                                  OrDefault(ctor.allowPageRefresh, FALSE)),
   preserveState    |-> OrDefault(call.preserveState,
                                  OrDefault(ctor.preserveState, TRUE))]


RResult(success, strategy, newSelector) ==
  [success |-> success, strategy |-> strategy, newSelector |-> newSelector]

NoRResult == RResult(FALSE, "pending", "")

\* mutant of MayReload: the opt-in flag is not looked at
MayReloadWithoutOptIn(opts) == ~opts.preserveState

\* if (opts.allowPageRefresh && !opts.preserveState)
MayReload(opts) == opts.allowPageRefresh /\ ~opts.preserveState

InitRecovery ==
  /\ er \in { [pc |-> "start", errorType |-> e,
               ctor |-> [maxRetries |-> RecoveryMaxRetries,
                         allowPageRefresh |-> ca, preserveState |-> cp],
               call |-> [allowPageRefresh |-> a, preserveState |-> p],
               attempt |-> 1, tried |-> << >>, reloads |-> 0,
               result |-> NoRResult] :
                e \in ErrorTypes, ca \in Opt3, cp \in Opt3, a \in Opt3, p \in Opt3 }
  /\ ih = [pc |-> "unused"]
  /\ dd = [pc |-> "unused"]
  /\ ea = [pc |-> "unused"]
  /\ other = [pc |-> "unused"]
  /\ ws = [pc |-> "unused"]
  /\ pa = [pc |-> "unused"]
  /\ ce = [pc |-> "unused"]
  /\ fa = [pc |-> "unused"]
  /\ page = [url |-> "/form", buttons |-> << >>, fields |-> << >>, modals |-> << >>]
  /\ goal = NoGoal
  /\ config = [maxSteps |-> MaxSteps, maxRetries |-> DefaultMaxRetries,
               retryOnError |-> TRUE, strictMode |-> FALSE]
  /\ pc = "idle"
  /\ currentStep = 0
  /\ retryCount = 0
  /\ steps = << >>
  /\ result = NoResult
  /\ processedInstructions = {}
  /\ actionHistory = << >>
  /\ stateSnapshots = << >>
  /\ fieldStrategies = DefaultStrategies
  /\ recorded = << >>

ErFrame ==
  UNCHANGED <<page, config, pc, goal, currentStep, retryCount, steps, result,
              processedInstructions, actionHistory, stateSnapshots,
              fieldStrategies, recorded, ih, dd, ea, other, ws, pa, ce, fa>>

\* attemptRecovery up to the loop: classify, filter and sort; no applicable
\* strategy returns failure at once
attemptRecovery ==
  /\ er.pc = "start"
  /\ er' = IF Len(applicableStrategies(er.errorType)) = 0
           THEN [er EXCEPT !.pc = "returned", !.result = RResult(FALSE, "none", "")]
           ELSE [er EXCEPT !.pc = "loop"]
  /\ ErFrame

\* the strategies one round really runs: refresh-page is skipped unless
\* page refresh is allowed
RoundStrategies(e, opts) ==
  SelectSeq(applicableStrategies(e),
            LAMBDA st : ~(st.strategyType = "refresh-page" /\ ~opts.allowPageRefresh))

\* one round of the loop: the strategies run in order until one reports
\* success; works is the set of strategies the page lets succeed this round
\* (the refresh-page strategy itself always reports false)
attemptRecoveryRound ==
  /\ er.pc = "loop"
  /\ LET opts  == MergedOptions(er.ctor, er.call)
         round == RoundStrategies(er.errorType, opts)
         types == { round[k].strategyType : k \in 1..Len(round) } \ {"refresh-page"}
     IN  \E works \in SUBSET types :
           LET hit == { k \in 1..Len(round) : round[k].strategyType \in works }
               k1  == CHOOSE k \in hit : \A j \in hit : k <= j
           IN  er' =
                 IF hit # {}
                 THEN [er EXCEPT
                         !.pc = "returned",
                         !.tried = [j \in 1..k1 |-> round[j].strategyType],
                         !.result = RResult(TRUE, round[k1].strategyType,
                                      IF round[k1].strategyType = "alternative-selector"
                                      THEN "alt" ELSE "")]
                 ELSE IF er.attempt < opts.maxRetries
                 THEN [er EXCEPT !.attempt = er.attempt + 1,
                                 !.tried = [j \in 1..Len(round) |-> round[j].strategyType]]
                 ELSE [er EXCEPT !.pc = "lastResort",
                                 !.tried = [j \in 1..Len(round) |-> round[j].strategyType]]
  /\ ErFrame

\* after the loop: the page is reloaded as the last resort when allowed,
\* and the call returns
attemptRecoveryLastResort ==
  /\ er.pc = "lastResort"
  /\ LET opts == MergedOptions(er.ctor, er.call)
     IN  IF MayReload(opts)
         THEN \E reloaded \in BOOLEAN :
                er' = [er EXCEPT
                         !.pc = "returned",
                         !.reloads = er.reloads + 1,
                         !.result = IF reloaded THEN RResult(TRUE, "refresh-page", "")
                                    ELSE RResult(FALSE, "none", "")]
         ELSE er' = [er EXCEPT !.pc = "returned",
                               !.result = RResult(FALSE, "none", "")]
  /\ ErFrame

NextRecovery ==
  \/ attemptRecovery
  \/ attemptRecoveryRound
  \/ attemptRecoveryLastResort

SpecRecovery == InitRecovery /\ [][NextRecovery]_vars

\* the caller enabled page refresh: in the options of the call or, when the
\* call leaves it unset, in the options of the constructor
RefreshEnabledByCaller ==
  \/ er.call.allowPageRefresh = "true"
  \/ er.call.allowPageRefresh = "unset" /\ er.ctor.allowPageRefresh = "true"

\* C16: attemptRecovery reloads the page only if the caller enabled page
\* refresh; with the default options no reload occurs, for every error type
\* and after any number of rounds
C16_ReloadOnlyOptIn ==
  /\ er.reloads > 0 => RefreshEnabledByCaller
  /\ er.result.strategy = "refresh-page" => RefreshEnabledByCaller

C16_Witness ==
  /\ er.pc = "returned"
  /\ er.errorType = "unknown"
  /\ er.call.allowPageRefresh = "unset" /\ er.ctor.allowPageRefresh = "unset"
  /\ er.call.preserveState = "false"
  /\ er.attempt = RecoveryMaxRetries
  /\ ~er.result.success
  /\ er.reloads = 0

\* A step of the run records the action during which the connection was lost.
ConnectionLostStep(k) == steps[k].error = "connection-lost"

\* After a connection loss the loop takes no further step and execute()
\* returns a failure.
C17_NoStepAfterConnectionLoss ==
  \A k \in 1..Len(steps) :
    ConnectionLostStep(k) => k = Len(steps) /\ pc = "ret_catch" /\ ~result.success

\* C17: a loss of the browser connection during execute() is not retried and
\* is not treated as an ordinary failed step (no step of the run records it as
\* a failed action with a retry counted); the loop takes no further step and
\* the failure reaches the caller.
C17_FatalNotOrdinaryStep ==
  /\ C17_NoStepAfterConnectionLoss
  /\ \A k \in 1..Len(steps) : ~ConnectionLostStep(k)

\* ---------------------------------------------------------------------------
\* AutoPilot.executeAction: one action executed against the page, with the
\* places where ErrorRecovery.attemptRecovery is called (specification SpecExec)
\* ---------------------------------------------------------------------------

\* Action.type values dispatched by executeAction.
ExecTypes == {"fill", "click", "select", "wait", "escape", "tab"}

\* One call made on the page: the operation and the selector it was given
\* ("orig" = the action's selector, "alt" = RecoveryResult.newSelector).
Try(op, sel) == [op |-> op, sel |-> sel]

\* What attemptRecovery can return to fillInput: failure, success with the
\* same selector, success with a new selector (alternative-selector strategy).
RecoveryOutcomes ==
  { [success |-> FALSE, newSelector |-> "none"],
    [success |-> TRUE, newSelector |-> "none"],
    [success |-> TRUE, newSelector |-> "alt"] }

\* recoveryResult.newSelector || selector
SelectorAfter(r) == IF r.newSelector = "none" THEN "orig" ELSE r.newSelector

InitExec ==
  /\ ea \in { [pc |-> "start", type |-> t, hasSelector |-> hs, hasValue |-> hv,
               useSmartAnalysis |-> s,
               recoveries |-> 0, newSelector |-> "none", tries |-> << >>,
               outcome |-> "pending"] :
                t \in ExecTypes, hs \in BOOLEAN, hv \in BOOLEAN, s \in BOOLEAN }
  /\ ih = [pc |-> "unused"]
  /\ dd = [pc |-> "unused"]
  /\ er = [pc |-> "unused"]
  /\ other = [pc |-> "unused"]
  /\ ws = [pc |-> "unused"]
  /\ pa = [pc |-> "unused"]
  /\ ce = [pc |-> "unused"]
  /\ fa = [pc |-> "unused"]
  /\ page = [url |-> "/form", buttons |-> << >>, fields |-> << >>, modals |-> << >>]
  /\ goal = NoGoal
  /\ config = [maxSteps |-> MaxSteps, maxRetries |-> DefaultMaxRetries,
               retryOnError |-> TRUE, strictMode |-> FALSE]
  /\ pc = "idle"
  /\ currentStep = 0
  /\ retryCount = 0
  /\ steps = << >>
  /\ result = NoResult
  /\ processedInstructions = {}
  /\ actionHistory = << >>
  /\ stateSnapshots = << >>
  /\ fieldStrategies = DefaultStrategies
  /\ recorded = << >>

EaFrame ==
  UNCHANGED <<page, config, pc, goal, currentStep, retryCount, steps, result,
              processedInstructions, actionHistory, stateSnapshots,
              fieldStrategies, recorded, ih, dd, er, other, ws, pa, ce, fa>>

\* The call returns normally or throws to execute()'s inner catch.
Leaves(e, ok) ==
  [e EXCEPT !.pc = "returned", !.outcome = IF ok THEN "ok" ELSE "thrown"]

\* The action lacks what its case of the switch requires: fill and select
\* need selector and value, click needs a selector.
MissingArgument(e) ==
  \/ e.type \in {"fill", "select"} /\ (~e.hasSelector \/ ~e.hasValue)
  \/ e.type = "click" /\ ~e.hasSelector

\* executeAction: the switch on action.type. A missing selector or value
\* throws; 'fill' and 'click' go to their helpers; select, wait, escape and
\* tab are one call on the page each.
executeAction ==
  /\ ea.pc = "start"
  /\ \/ /\ MissingArgument(ea)
        /\ ea' = Leaves(ea, FALSE)
     \/ /\ ~MissingArgument(ea)
        /\ ea.type = "fill"
        /\ ea' = [ea EXCEPT !.pc = "fillInput"]
     \/ /\ ~MissingArgument(ea)
        /\ ea.type = "click"
        /\ ea' = [ea EXCEPT !.pc = "clickElement"]
     \/ /\ ~MissingArgument(ea)
        /\ ea.type \in {"select", "wait", "escape", "tab"}
        /\ \E ok \in BOOLEAN :
             ea' = Leaves([ea EXCEPT !.tries = Append(@, Try(ea.type, "orig"))], ok)
  /\ EaFrame

\* clickElement: waitFor visible, click; an exception leaves the method.
clickElement ==
  /\ ea.pc = "clickElement"
  /\ \E ok \in BOOLEAN :
       ea' = Leaves([ea EXCEPT !.tries = Append(@, Try("click", "orig"))], ok)
  /\ EaFrame

\* fillInput up to the first handler call: without smart analysis, or when
\* analyzeField throws, the legacy path; a dropdown or combobox goes to
\* DropdownHandler.selectOrCreate; any other field to fillField.
fillInput ==
  /\ ea.pc = "fillInput"
  /\ \/ /\ ~ea.useSmartAnalysis
        /\ ea' = [ea EXCEPT !.pc = "legacy"]
     \/ /\ ea.useSmartAnalysis
        /\ \/ ea' = [ea EXCEPT !.pc = "legacy"]
           \/ ea' = [ea EXCEPT !.pc = "fillField"]
           \/ \E r \in {"success", "failure", "throws"} :
                LET e == [ea EXCEPT !.tries = Append(@, Try("selectOrCreate", "orig"))]
                IN  ea' = CASE r = "success" -> Leaves(e, TRUE)
                            [] r = "failure" -> [e EXCEPT !.pc = "recoverSelect"]
                            [] OTHER -> [e EXCEPT !.pc = "legacy"]
  /\ EaFrame

\* The dropdown failed: attemptRecovery(operation 'select'); on success
\* selectOrCreate once more with newSelector || selector; anything else falls
\* through to fillField.
fillInputRecoverSelect ==
  /\ ea.pc = "recoverSelect"
  /\ \E r \in RecoveryOutcomes :
       LET e == [ea EXCEPT !.recoveries = @ + 1, !.newSelector = r.newSelector]
       IN  IF r.success
           THEN \E again \in {"success", "failure", "throws"} :
                  LET f == [e EXCEPT !.tries =
                                Append(@, Try("selectOrCreate", SelectorAfter(r)))]
                  IN  ea' = CASE again = "success" -> Leaves(f, TRUE)
                              [] again = "failure" -> [f EXCEPT !.pc = "fillField"]
                              [] OTHER -> [f EXCEPT !.pc = "legacy"]
           ELSE ea' = [e EXCEPT !.pc = "fillField"]
  /\ EaFrame

\* interactionHandler.fillField on the analyzed field: on success the value
\* is verified and, when it did not persist, fillInputLegacy(selector) runs;
\* on failure recovery follows. An exception inside goes to the legacy path.
fillInputFillField ==
  /\ ea.pc = "fillField"
  /\ LET e == [ea EXCEPT !.tries = Append(@, Try("fillField", "orig"))]
     IN  \/ ea' = [e EXCEPT !.pc = "recoverFill"]
         \/ ea' = Leaves(e, TRUE)
         \/ \E ok \in BOOLEAN :
              LET f == [e EXCEPT !.tries = Append(@, Try("fillInputLegacy", "orig"))]
              IN  ea' = IF ok THEN Leaves(f, TRUE) ELSE [f EXCEPT !.pc = "legacy"]
  /\ EaFrame

\* fillField failed: attemptRecovery(operation 'fill'), then fillInputLegacy
\* with newSelector || selector after a successful recovery and with the
\* selector otherwise; its exception is caught and the legacy path follows.
fillInputRecoverFill ==
  /\ ea.pc = "recoverFill"
  /\ \E r \in RecoveryOutcomes, ok \in BOOLEAN :
       LET sel == IF r.success THEN SelectorAfter(r) ELSE "orig"
           e == [ea EXCEPT !.recoveries = @ + 1, !.newSelector = r.newSelector,
                           !.tries = Append(@, Try("fillInputLegacy", sel))]
       IN  ea' = IF ok THEN Leaves(e, TRUE) ELSE [e EXCEPT !.pc = "legacy"]
  /\ EaFrame

\* The last line of fillInput: fillInputLegacy(selector), whose exception
\* ("Value not persisted after retry", a locator timeout) leaves fillInput.
fillInputLegacy ==
  /\ ea.pc = "legacy"
  /\ \E ok \in BOOLEAN :
       ea' = Leaves([ea EXCEPT !.tries = Append(@, Try("fillInputLegacy", "orig"))], ok)
  /\ EaFrame

NextExec ==
  \/ executeAction
  \/ clickElement
  \/ fillInput
  \/ fillInputRecoverSelect
  \/ fillInputFillField
  \/ fillInputRecoverFill
  \/ fillInputLegacy

SpecExec == InitExec /\ [][NextExec]_vars

\* Number of calls made with the selector that recovery returned.
TriesWith(sel) == Cardinality({ i \in 1..Len(ea.tries) : ea.tries[i].sel = sel })

\* C14: when executing an action of any kind fails, recovery was attempted,
\* and when recovery returned a different selector the action was retried
\* exactly once with that selector before the failure left executeAction.
C14_RecoveryBeforeFailure ==
  (ea.pc = "returned" /\ ea.outcome = "thrown")
    => /\ ea.recoveries >= 1
       /\ ea.newSelector = "alt" => TriesWith("alt") = 1

\* ---------------------------------------------------------------------------
\* Two execute() calls on one AutoPilot: the second one after the first has
\* returned, or while the first is suspended at an await (specification
\* SpecCalls). The call that is running has its locals in the variables of the
\* run; the locals of the other call are kept in 'other'.
\* ---------------------------------------------------------------------------

\* Pages the two calls run on.
CallPages ==
  { [url |-> "/form", buttons |-> << Btn("submit", FALSE, SubmitSel) >>,
     fields |-> << Inp("memo", FALSE, FALSE, TRUE, "", F1),
                   Inp("name", TRUE, FALSE, TRUE, "", F2) >>,
     modals |-> << >>],
    [url |-> "/form", buttons |-> << Btn("submit", TRUE, SubmitSel) >>,
     fields |-> << Inp("name", TRUE, FALSE, TRUE, "", F1) >>,
     modals |-> << >>] }

\* Goals of the two calls: no target, the target alone, the target with a
\* success indicator, the target with an explicit field instruction.
CallGoals ==
  { g \in Goals : /\ g.requiredFields = << >>
                  /\ (g.targetButton = "" => g.successIndicator = "" /\ g.fieldInstructions = << >>)
                  /\ (g.fieldInstructions # << >> =>
                        g.successIndicator = "" /\ g.fieldInstructions[1].field = F1) }

InitCalls ==
  /\ page \in CallPages
  /\ config = [maxSteps |-> MaxCallSteps, maxRetries |-> DefaultMaxRetries,
               retryOnError |-> TRUE, strictMode |-> FALSE]
  /\ pc = "idle"
  /\ goal = NoGoal
  /\ currentStep = 0
  /\ retryCount = 0
  /\ steps = << >>
  /\ result = NoResult
  /\ processedInstructions = {}
  /\ actionHistory = << >>
  /\ stateSnapshots = << >>
  /\ fieldStrategies = DefaultStrategies
  /\ recorded = << >>
  /\ ih = [pc |-> "unused"]
  /\ dd = [pc |-> "unused"]
  /\ er = [pc |-> "unused"]
  /\ ea = [pc |-> "unused"]
  /\ other = [pc |-> "unused"]
  /\ ws = [pc |-> "unused"]
  /\ pa = [pc |-> "unused"]
  /\ ce = [pc |-> "unused"]
  /\ fa = [pc |-> "unused"]

\* The locals of the call that is in the variables of the run.
Locals ==
  [pc |-> pc, goal |-> goal, currentStep |-> currentStep,
   retryCount |-> retryCount, steps |-> steps, result |-> result]

\* execute(g) is entered a second time on the same instance: fresh locals,
\* processedInstructions.clear(); the decider and its histories are the ones
\* the constructor made.
SecondCall(g, overlapped) ==
  /\ other.pc = "unused"
  /\ other' = [pc |-> "second", active |-> 2, overlapped |-> overlapped,
               switches |-> 0,
               startHistory |-> actionHistory, startSnapshots |-> stateSnapshots,
               saved |-> Locals]
  /\ goal' = g
  /\ pc' = "running"
  /\ currentStep' = 0
  /\ retryCount' = 0
  /\ steps' = << >>
  /\ result' = NoResult
  /\ processedInstructions' = {}
  /\ UNCHANGED <<page, config, actionHistory, stateSnapshots, fieldStrategies,
                 recorded, ih, dd, er, ea, ws, pa, ce, fa>>

\* the first execute() call on the instance
ExecuteFirst ==
  /\ pc = "idle"
  /\ \E g \in CallGoals : ExecuteGoal(g)

\* the caller awaits the first result, then calls execute() again
ExecuteAfterReturn ==
  /\ Returned
  /\ \E g \in CallGoals : SecondCall(g, FALSE)

\* the caller calls execute() again while the first call is suspended at an
\* await of its loop; nothing in execute() refuses the call
ExecuteWhileRunning ==
  /\ pc = "running"
  /\ \E g \in CallGoals : SecondCall(g, TRUE)

\* at an await the event loop continues the other call's loop
Resume ==
  /\ other.pc = "second"
  /\ other.saved.pc = "running"
  /\ other.switches < MaxSwitches
  /\ other' = [other EXCEPT !.active = 3 - @, !.saved = Locals,
                            !.switches = @ + 1]
  /\ pc' = other.saved.pc
  /\ goal' = other.saved.goal
  /\ currentStep' = other.saved.currentStep
  /\ retryCount' = other.saved.retryCount
  /\ steps' = other.saved.steps
  /\ result' = other.saved.result
  /\ UNCHANGED <<page, config, processedInstructions, actionHistory,
                 stateSnapshots, fieldStrategies, recorded, ih, dd, er, ea, ws, pa, ce, fa>>

NextCalls ==
  \/ ExecuteFirst
  \/ StepInstruction
  \/ StepDone
  \/ StepBlocked
  \/ StepExplore
  \/ StepExecute
  \/ StepConnectionLost
  \/ LoopExit
  \/ CatchError
  \/ ExecuteAfterReturn
  \/ ExecuteWhileRunning
  \/ Resume

SpecCalls == InitCalls /\ [][NextCalls]_vars

\* C19: the histories are discarded when execute() returns: an execute() that
\* is called after an earlier one has returned starts with an empty action
\* history and an empty digest history.
C19_LaterRunStartsEmpty ==
  (other.pc = "second" /\ ~other.overlapped)
    => other.startHistory = << >> /\ other.startSnapshots = << >>

\* The second call has taken a step on the page while the first call, started
\* earlier on the same instance, is still in its loop.
SecondActsDuringFirst ==
  /\ other.pc = "second"
  /\ other.overlapped
  /\ other.active = 2
  /\ other.saved.pc = "running"
  /\ Len(steps) >= 1

\* C20: while one execute() call is in progress no second decision loop acts
\* on the same page or on the same instance's state.
C20_NoSecondLoopActs == ~SecondActsDuringFirst

\* ---------------------------------------------------------------------------
\* WaitStrategy: one call of a wait primitive against a page that mutates,
\* loads and animates as it likes (specification SpecWait). Time is counted
\* in ticks of the polling interval; ws.elapsed is the time since the call.
\* ---------------------------------------------------------------------------

WaitPrimitives ==
  {"dom-stable", "network-idle", "value-persistence", "interactable",
   "animation-end", "stable-state"}

\* stabilityThreshold, in ticks
StabilityTicks == 1

WResult(success, reason) == [success |-> success, reason |-> reason]
NoWResult == [success |-> FALSE, reason |-> "pending"]

\* What the element given to waitForAnimationEnd is running: no animation,
\* animations that finish, an animation with an infinite iteration count.
AnimationKinds == {"none", "finite", "infinite"}

InitWait ==
  /\ ws \in { [pc |-> "waiting", prim |-> p, timeout |-> t, elapsed |-> 0,
               quiet |-> 0, dom |-> "pending", net |-> "pending",
               stable |-> FALSE, animations |-> a, result |-> NoWResult] :
                p \in WaitPrimitives, t \in 1..MaxTimeout, a \in AnimationKinds }
  /\ ih = [pc |-> "unused"]
  /\ dd = [pc |-> "unused"]
  /\ er = [pc |-> "unused"]
  /\ ea = [pc |-> "unused"]
  /\ other = [pc |-> "unused"]
  /\ pa = [pc |-> "unused"]
  /\ ce = [pc |-> "unused"]
  /\ fa = [pc |-> "unused"]
  /\ page = [url |-> "/form", buttons |-> << >>, fields |-> << >>, modals |-> << >>]
  /\ goal = NoGoal
  /\ config = [maxSteps |-> MaxSteps, maxRetries |-> DefaultMaxRetries,
               retryOnError |-> TRUE, strictMode |-> FALSE]
  /\ pc = "idle"
  /\ currentStep = 0
  /\ retryCount = 0
  /\ steps = << >>
  /\ result = NoResult
  /\ processedInstructions = {}
  /\ actionHistory = << >>
  /\ stateSnapshots = << >>
  /\ fieldStrategies = DefaultStrategies
  /\ recorded = << >>

WsFrame ==
  UNCHANGED <<page, config, pc, goal, currentStep, retryCount, steps, result,
              processedInstructions, actionHistory, stateSnapshots,
              fieldStrategies, recorded, ih, dd, er, ea, other, pa, ce, fa>>

\* the call returns its WaitResult
WaitReturns(w, success, reason) ==
  [w EXCEPT !.pc = "returned", !.result = WResult(success, reason)]

\* one tick passes while the call is suspended
Tick(w) == [w EXCEPT !.elapsed = @ + 1]

\* The promise evaluated in the page by waitForDomStable: resolved when no
\* mutation was seen for the threshold, when the threshold no longer fits
\* into the timeout, or by the timer of the whole timeout.
DomResolved(w) ==
  \/ w.quiet >= StabilityTicks
  \/ w.quiet + StabilityTicks > w.timeout
  \/ w.elapsed >= w.timeout

\* timeSinceLastMutation >= stabilityThreshold: the DOM is stable now
DomStable(w) == w.quiet >= StabilityTicks

\* one tick of the page under the MutationObserver: a mutation resets the
\* quiet time
DomTick(w) ==
  { [Tick(w) EXCEPT !.quiet = 0], [Tick(w) EXCEPT !.quiet = @ + 1] }

\* waitForDomStable: success when the promise resolves, on timeout as well;
\* failure when page.evaluate rejects
waitForDomStable ==
  /\ ws.pc = "waiting" /\ ws.prim = "dom-stable"
  /\ \/ /\ DomResolved(ws)
        /\ ws' = WaitReturns([ws EXCEPT !.stable = DomStable(ws)], TRUE, "")
     \/ /\ ~DomResolved(ws)
        /\ ws' \in DomTick(ws)
     \/ ws' = WaitReturns(ws, FALSE, "evaluate-rejected")
  /\ WsFrame

\* waitForNetworkIdle: page.waitForLoadState('networkidle', {timeout})
waitForNetworkIdle ==
  /\ ws.pc = "waiting" /\ ws.prim = "network-idle"
  /\ \/ ws' = WaitReturns(ws, TRUE, "")
     \/ /\ ws.elapsed < ws.timeout
        /\ ws' = Tick(ws)
     \/ /\ ws.elapsed >= ws.timeout
        /\ ws' = WaitReturns(ws, FALSE, "network-not-idle")
  /\ WsFrame

\* waitForValuePersistence: while (Date.now() - startTime < timeout) read the
\* value, return on a match, else wait one interval; failure after the loop
waitForValuePersistenceCall ==
  /\ ws.pc = "waiting" /\ ws.prim = "value-persistence"
  /\ \/ /\ ws.elapsed < ws.timeout
        /\ \/ ws' = WaitReturns(ws, TRUE, "")
           \/ ws' = Tick(ws)
     \/ /\ ws.elapsed >= ws.timeout
        /\ ws' = WaitReturns(ws, FALSE, "value-not-persisted")
  /\ WsFrame

\* waitForInteractable: locator.waitFor({state: 'visible', timeout}), then
\* the enabled, visible and bounding-box checks
waitForInteractable ==
  /\ ws.pc = "waiting" /\ ws.prim = "interactable"
  /\ \/ \E r \in {"", "disabled", "not-visible", "no-bounding-box"} :
          ws' = WaitReturns(ws, r = "", r)
     \/ /\ ws.elapsed < ws.timeout
        /\ ws' = Tick(ws)
     \/ /\ ws.elapsed >= ws.timeout
        /\ ws' = WaitReturns(ws, FALSE, "waitFor-timeout")
  /\ WsFrame

\* waitForAnimationEnd: locator.evaluate of a promise that resolves at once
\* without animations and otherwise when every animation has finished;
\* waitTimeout is computed and not passed to anything.
waitForAnimationEnd ==
  /\ ws.pc = "waiting" /\ ws.prim = "animation-end"
  /\ \/ /\ ws.animations = "none"
        /\ ws' = WaitReturns(ws, TRUE, "")
     \/ /\ ws.animations = "finite"
        /\ ws' = WaitReturns(ws, TRUE, "")
     \/ /\ ws.animations \in {"finite", "infinite"}
        /\ ws.elapsed < MaxClock
        /\ ws' = Tick(ws)
     \/ ws' = WaitReturns(ws, FALSE, "evaluate-rejected")
  /\ WsFrame

\* waitForStableState: Promise.all of waitForDomStable and waitForNetworkIdle
\* with the same timeout; success when both succeeded
waitForStableState ==
  /\ ws.pc = "waiting" /\ ws.prim = "stable-state"
  /\ \/ /\ ws.dom # "pending" /\ ws.net # "pending"
        /\ ws' = WaitReturns(ws, ws.dom = "ok" /\ ws.net = "ok",
                             IF ws.dom = "ok" /\ ws.net = "ok" THEN "" ELSE "dom-or-network")
     \/ /\ ws.dom = "pending"
        /\ \/ DomResolved(ws) /\ ws' = [ws EXCEPT !.dom = "ok", !.stable = DomStable(ws)]
           \/ ws' = [ws EXCEPT !.dom = "failed"]
     \/ /\ ws.net = "pending"
        /\ \/ ws' = [ws EXCEPT !.net = "ok"]
           \/ ws.elapsed >= ws.timeout /\ ws' = [ws EXCEPT !.net = "failed"]
     \/ /\ ws.dom = "pending" \/ ws.net = "pending"
        /\ ws.elapsed < ws.timeout
        /\ ws' \in DomTick(ws)
  /\ WsFrame

NextWait ==
  \/ waitForDomStable
  \/ waitForNetworkIdle
  \/ waitForValuePersistenceCall
  \/ waitForInteractable
  \/ waitForAnimationEnd
  \/ waitForStableState

SpecWait == InitWait /\ [][NextWait]_vars

\* C21: every wait primitive returns within its timeout whatever the page
\* does: no call is still suspended, and none has returned, later than its
\* timeout after it was made.
C21_WaitBoundedByTimeout ==
  ws.pc \in {"waiting", "returned"} => ws.elapsed <= ws.timeout

\* ---------------------------------------------------------------------------
\* PageStateAnalyzer.analyze on a document whose elements carry their bounding
\* boxes (specification SpecAnalyze)
\* ---------------------------------------------------------------------------

\* getBoundingClientRect of an element: zero or non-zero width and height
Rects == { [width |-> w, height |-> h] : w \in 0..1, h \in 0..1 }

\* An element of the document: its tag, its box, and for an input whether
\* its type is 'hidden'.
Elem(tag, rect, hidden) == [tag |-> tag, rect |-> rect, hidden |-> hidden]

\* The documents analysed: a button and an input on the page, and a dialog
\* holding a button and an input; in document order.
Documents ==
  { [button |-> Elem("button", b, FALSE), input |-> Elem("input", i, hid),
     dialog |-> [rect |-> d, button |-> Elem("button", db, FALSE),
                 input |-> Elem("input", di, FALSE)]] :
      b \in Rects, i \in Rects, hid \in BOOLEAN, d \in Rects, db \in Rects,
      di \in Rects }

\* rect.width > 0 && rect.height > 0
NonZero(rect) == rect.width > 0 /\ rect.height > 0

\* A reported ButtonState or InputState, with the box of its element.
Reported(e, visible) == [tag |-> e.tag, rect |-> e.rect, visible |-> visible]

\* extractButtons: every button of the document (those of the dialog
\* included) whose box has neither zero width nor zero height
extractButtonsOf(d) ==
  FilterSeq(<< Reported(d.button, NonZero(d.button.rect)),
               Reported(d.dialog.button, NonZero(d.dialog.button.rect)) >>,
            LAMBDA b : ~(b.rect.width = 0 \/ b.rect.height = 0))

\* extractInputs: every input of the document that is not of type hidden,
\* with visible computed from its box
extractInputsOf(d) ==
  FilterSeq(<< [Reported(d.input, NonZero(d.input.rect)) EXCEPT !.tag =
                  IF d.input.hidden THEN "hidden" ELSE "input"],
               Reported(d.dialog.input, NonZero(d.dialog.input.rect)) >>,
            LAMBDA i : i.tag # "hidden")

\* extractModals: a dialog of non-zero width, its buttons of non-zero width
\* and all of its inputs, each reported as visible
extractModalsOf(d) ==
  IF d.dialog.rect.width = 0 THEN << >>
  ELSE << [visible |-> TRUE,
           buttons |-> IF d.dialog.button.rect.width = 0 THEN << >>
                       ELSE << Reported(d.dialog.button, TRUE) >>,
           inputs  |-> << Reported(d.dialog.input, TRUE) >>] >>

\* analyze: the PageState of the document
analyzeDocument(d) ==
  [buttons |-> extractButtonsOf(d),
   inputs  |-> extractInputsOf(d),
   modals  |-> extractModalsOf(d),
   forms   |-> groupIntoForms(extractInputsOf(d), extractButtonsOf(d))]

InitAnalyze ==
  /\ pa \in { [pc |-> "start", document |-> d, state |-> "none"] : d \in Documents }
  /\ ih = [pc |-> "unused"]
  /\ dd = [pc |-> "unused"]
  /\ er = [pc |-> "unused"]
  /\ ea = [pc |-> "unused"]
  /\ other = [pc |-> "unused"]
  /\ ws = [pc |-> "unused"]
  /\ ce = [pc |-> "unused"]
  /\ fa = [pc |-> "unused"]
  /\ page = [url |-> "/form", buttons |-> << >>, fields |-> << >>, modals |-> << >>]
  /\ goal = NoGoal
  /\ config = [maxSteps |-> MaxSteps, maxRetries |-> DefaultMaxRetries,
               retryOnError |-> TRUE, strictMode |-> FALSE]
  /\ pc = "idle"
  /\ currentStep = 0
  /\ retryCount = 0
  /\ steps = << >>
  /\ result = NoResult
  /\ processedInstructions = {}
  /\ actionHistory = << >>
  /\ stateSnapshots = << >>
  /\ fieldStrategies = DefaultStrategies
  /\ recorded = << >>

\* analyze() is called on the document
analyzeCall ==
  /\ pa.pc = "start"
  /\ pa' = [pa EXCEPT !.pc = "analyzed", !.state = analyzeDocument(pa.document)]
  /\ UNCHANGED <<page, config, pc, goal, currentStep, retryCount, steps, result,
                 processedInstructions, actionHistory, stateSnapshots,
                 fieldStrategies, recorded, ih, dd, er, ea, other, ws, ce, fa>>

NextAnalyze == analyzeCall

SpecAnalyze == InitAnalyze /\ [][NextAnalyze]_vars

AllNonZero(s) == \A k \in 1..Len(s) : NonZero(s[k].rect)

\* C22: every button and every field of a snapshot, in the top-level lists,
\* in the form view and inside the modals, has non-zero width and height.
C22_ReportedHaveNonZeroBox ==
  pa.pc = "analyzed" =>
    /\ AllNonZero(pa.state.buttons)
    /\ AllNonZero(pa.state.inputs)
    /\ \A f \in 1..Len(pa.state.forms) :
         AllNonZero(pa.state.forms[f].inputs) /\ AllNonZero(pa.state.forms[f].buttons)
    /\ \A m \in 1..Len(pa.state.modals) :
         AllNonZero(pa.state.modals[m].inputs) /\ AllNonZero(pa.state.modals[m].buttons)

\* ---------------------------------------------------------------------------
\* ErrorRecovery.classifyError on failure messages, a message being the set of
\* keywords its lower-cased text contains (specification SpecClassify)
\* ---------------------------------------------------------------------------

\* The substrings classifyError looks for.
Keywords ==
  {"not found", "no element", "locator resolved to", "not visible", "hidden",
   "not interactable", "intercept", "clickable", "detached", "stale",
   "timeout", "exceeded", "navigation", "navigate", "network", "fetch",
   "net::", "multiple", "strict mode", "value", "persist", "mismatch"}

\* The messages classified: those containing at most MaxKeywords keywords.
Messages == { m \in SUBSET Keywords : Cardinality(m) <= MaxKeywords }

\* message.includes(k) for one of the given substrings
IncludesAny(m, ks) == m \cap ks # {}

\* mutant of classifyError: the timeout test is made first
classifyErrorTimeoutFirst(m) ==
  IF IncludesAny(m, {"timeout", "exceeded"}) THEN "timeout"
  ELSE IF IncludesAny(m, {"not found", "no element", "locator resolved to"})
  THEN "element-not-found"
  ELSE IF IncludesAny(m, {"not visible", "hidden"}) THEN "element-not-visible"
  ELSE IF IncludesAny(m, {"not interactable", "intercept", "clickable"})
  THEN "element-not-interactable"
  ELSE IF IncludesAny(m, {"detached", "stale"}) THEN "element-detached"
  ELSE IF IncludesAny(m, {"navigation", "navigate"}) THEN "navigation-error"
  ELSE IF IncludesAny(m, {"network", "fetch", "net::"}) THEN "network-error"
  ELSE IF IncludesAny(m, {"multiple", "strict mode"}) THEN "selector-ambiguous"
  ELSE IF "value" \in m /\ IncludesAny(m, {"persist", "mismatch"})
  THEN "value-not-persisted"
  ELSE "unknown"

\* classifyError: the chain of tests, the first that matches decides
classifyError(m) ==
  IF IncludesAny(m, {"not found", "no element", "locator resolved to"})
  THEN "element-not-found"
  ELSE IF IncludesAny(m, {"not visible", "hidden"}) THEN "element-not-visible"
  ELSE IF IncludesAny(m, {"not interactable", "intercept", "clickable"})
  THEN "element-not-interactable"
  ELSE IF IncludesAny(m, {"detached", "stale"}) THEN "element-detached"
  ELSE IF IncludesAny(m, {"timeout", "exceeded"}) THEN "timeout"
  ELSE IF IncludesAny(m, {"navigation", "navigate"}) THEN "navigation-error"
  ELSE IF IncludesAny(m, {"network", "fetch", "net::"}) THEN "network-error"
  ELSE IF IncludesAny(m, {"multiple", "strict mode"}) THEN "selector-ambiguous"
  ELSE IF "value" \in m /\ IncludesAny(m, {"persist", "mismatch"})
  THEN "value-not-persisted"
  ELSE "unknown"

InitClassify ==
  /\ ce \in { [pc |-> "start", message |-> m, errorType |-> "none"] : m \in Messages }
  /\ fa = [pc |-> "unused"]
  /\ ih = [pc |-> "unused"]
  /\ dd = [pc |-> "unused"]
  /\ er = [pc |-> "unused"]
  /\ ea = [pc |-> "unused"]
  /\ other = [pc |-> "unused"]
  /\ ws = [pc |-> "unused"]
  /\ pa = [pc |-> "unused"]
  /\ page = [url |-> "/form", buttons |-> << >>, fields |-> << >>, modals |-> << >>]
  /\ goal = NoGoal
  /\ config = [maxSteps |-> MaxSteps, maxRetries |-> DefaultMaxRetries,
               retryOnError |-> TRUE, strictMode |-> FALSE]
  /\ pc = "idle"
  /\ currentStep = 0
  /\ retryCount = 0
  /\ steps = << >>
  /\ result = NoResult
  /\ processedInstructions = {}
  /\ actionHistory = << >>
  /\ stateSnapshots = << >>
  /\ fieldStrategies = DefaultStrategies
  /\ recorded = << >>

\* classifyError(error) is called
classifyErrorCall ==
  /\ ce.pc = "start"
  /\ ce' = [ce EXCEPT !.pc = "classified", !.errorType = classifyError(ce.message)]
  /\ UNCHANGED <<page, config, pc, goal, currentStep, retryCount, steps, result,
                 processedInstructions, actionHistory, stateSnapshots,
                 fieldStrategies, recorded, ih, dd, er, ea, other, ws, pa, fa>>

NextClassify == classifyErrorCall

SpecClassify == InitClassify /\ [][NextClassify]_vars

\* The entries of the taxonomy that have keywords, in the order in which
\* their keywords are looked for.
EntryOrder ==
  << "element-not-found", "element-not-visible", "element-not-interactable",
     "element-detached", "timeout", "navigation-error", "network-error",
     "selector-ambiguous", "value-not-persisted" >>

\* The message carries the keyword of the entry.
Carries(m, entry) ==
  CASE entry = "element-not-found" ->
         IncludesAny(m, {"not found", "no element", "locator resolved to"})
    [] entry = "element-not-visible" -> IncludesAny(m, {"not visible", "hidden"})
    [] entry = "element-not-interactable" ->
         IncludesAny(m, {"not interactable", "intercept", "clickable"})
    [] entry = "element-detached" -> IncludesAny(m, {"detached", "stale"})
    [] entry = "timeout" -> IncludesAny(m, {"timeout", "exceeded"})
    [] entry = "navigation-error" -> IncludesAny(m, {"navigation", "navigate"})
    [] entry = "network-error" -> IncludesAny(m, {"network", "fetch", "net::"})
    [] entry = "selector-ambiguous" -> IncludesAny(m, {"multiple", "strict mode"})
    [] entry = "value-not-persisted" ->
         "value" \in m /\ IncludesAny(m, {"persist", "mismatch"})
    [] OTHER -> FALSE

CarriedEntries(m) == { k \in 1..Len(EntryOrder) : Carries(m, EntryOrder[k]) }

\* C23 as stated: a message carrying the keyword of an entry is classified as
\* that entry, and a message carrying no keyword as unknown.
C23_KeywordDecidesEntry ==
  ce.pc = "classified" =>
    /\ \A k \in CarriedEntries(ce.message) : ce.errorType = EntryOrder[k]
    /\ CarriedEntries(ce.message) = {} => ce.errorType = "unknown"

\* C23 amended: a message is classified as exactly one entry of the taxonomy,
\* the first entry in the order of the tests whose keyword it carries, and as
\* unknown when it carries none.
C23_FirstKeywordDecidesEntry ==
  ce.pc = "classified" =>
    /\ ce.errorType \in ErrorTypes
    /\ IF CarriedEntries(ce.message) = {} THEN ce.errorType = "unknown"
       ELSE \E k \in CarriedEntries(ce.message) :
              /\ ce.errorType = EntryOrder[k]
              /\ \A j \in CarriedEntries(ce.message) : k <= j

\* a classified message that carries the keywords of two entries
C23_Witness ==
  /\ ce.pc = "classified"
  /\ ce.message = {"timeout", "not visible"}
  /\ ce.errorType = "element-not-visible"

\* ---------------------------------------------------------------------------
\* The blur confirmation of the Decision Engine (specification Spec)
\* ---------------------------------------------------------------------------

\* No field is pending: the document shows no visible, enabled, empty input.
NoFieldPending(p) ==
  \A k \in 1..Len(extractInputs(p)) :
    LET i == extractInputs(p)[k]
    IN  ~(i.visible /\ ~i.disabled /\ i.value = "")

\* The most recent recorded Fill is later than the most recent recorded
\* TabKey.
FillSinceLastTab(history) ==
  \E i \in 1..Len(history) :
    /\ history[i].type = "fill"
    /\ \A j \in i..Len(history) : history[j].type # "tab"

\* The target is found but disabled, no field is pending and a Fill was
\* recorded since the last TabKey.
BlurDue ==
  /\ TargetDisabled(page, goal)
  /\ NoFieldPending(page)
  /\ FillSinceLastTab(actionHistory)

\* C24 as stated: the Decision Engine returns TabKey exactly when the target
\* is found but disabled, no field is pending and the most recent recorded
\* Fill is later than the most recent recorded TabKey.
C24_TabExactlyWhenBlurDue ==
  [][ DecidedStep => (Last(steps').action.type = "tab" <=> BlurDue) ]_vars

\* C24 amended: with no modal open and the success condition not satisfied,
\* the Decision Engine returns TabKey exactly when the target is found but
\* disabled, no field is pending and the most recent recorded Fill is later
\* than the most recent recorded TabKey, and never otherwise; a decision made
\* right after a recorded TabKey in such a state is Explore.
C24_TabExactlyWhenBlurDueAmended ==
  [][ DecidedStep =>
        /\ Last(steps').action.type = "tab"
             <=> (BlurDue /\ Len(page.modals) = 0 /\ ~SuccessHolds(page, goal))
        /\ (/\ Len(actionHistory) > 0
            /\ Last(actionHistory).type = "tab"
            /\ TargetDisabled(page, goal)
            /\ NoFieldPending(page)
            /\ Len(page.modals) = 0
            /\ ~SuccessHolds(page, goal))
             => Last(steps').action.type = "explore" ]_vars

\* a run that filled a field, pressed Tab once and then answered Explore
C24_Witness ==
  /\ Len(steps) >= 3
  /\ steps[1].action.type = "fill"
  /\ steps[2].action.type = "tab"
  /\ steps[3].action.type = "explore"

\* ---------------------------------------------------------------------------
\* ActionDecider.suggestEscapeAction, called by a client that keeps recording
\* digests of a page that does not change and records each suggested action
\* (specification SpecEscape)
\* ---------------------------------------------------------------------------

\* this.actionHistory.slice(-3)
LastThree(history) ==
  SubSeq(history, IF Len(history) > 3 THEN Len(history) - 2 ELSE 1, Len(history))

\* actionTypes.includes(type)
IncludesType(actions, type) == \E k \in 1..Len(actions) : actions[k].type = type

\* mutant of suggestEscapeAction: TabKey is looked for before Escape
suggestEscapeActionTabFirst(history) ==
  IF ~IncludesType(LastThree(history), "tab")
  THEN Act("tab", NoSel, "", "stuck")
  ELSE IF ~IncludesType(LastThree(history), "escape")
  THEN Act("escape", NoSel, "", "stuck")
  ELSE Act("wait", NoSel, "2000", "stuck")

\* suggestEscapeAction
suggestEscapeAction(history) ==
  IF ~IncludesType(LastThree(history), "escape")
  THEN Act("escape", NoSel, "", "stuck")
  ELSE IF ~IncludesType(LastThree(history), "tab")
  THEN Act("tab", NoSel, "", "stuck")
  ELSE Act("wait", NoSel, "2000", "stuck")

\* Histories the decider holds when the page gets stuck: up to two recorded
\* actions of the run.
EarlierActions ==
  { Act("fill", F1, "x", "field-needed"), Act("click", SubmitSel, "", "target-enabled"),
    Act("escape", NoSel, "", "modal-escape"), Act("tab", NoSel, "", "blur") }

EarlierHistories ==
  { << >> } \cup { << a >> : a \in EarlierActions }
            \cup { << a, b >> : a \in EarlierActions, b \in EarlierActions }

InitEscape ==
  /\ page \in SnapPages
  /\ goal = [NoGoal EXCEPT !.targetButton = "submit"]
  /\ actionHistory \in EarlierHistories
  /\ config = [maxSteps |-> MaxSteps, maxRetries |-> DefaultMaxRetries,
               retryOnError |-> TRUE, strictMode |-> FALSE]
  /\ pc = "idle"
  /\ currentStep = 0
  /\ retryCount = 0
  /\ steps = << >>
  /\ result = NoResult
  /\ processedInstructions = {}
  /\ stateSnapshots = << >>
  /\ fieldStrategies = DefaultStrategies
  /\ recorded = << >>
  /\ ih = [pc |-> "unused"]
  /\ dd = [pc |-> "unused"]
  /\ er = [pc |-> "unused"]
  /\ ea = [pc |-> "unused"]
  /\ other = [pc |-> "unused"]
  /\ ws = [pc |-> "unused"]
  /\ pa = [pc |-> "unused"]
  /\ ce = [pc |-> "unused"]
  /\ fa = [pc |-> "unused"]

\* In a stuck state the client asks suggestEscapeAction, carries the action
\* out without any effect on the page, and records it.
escapeStep ==
  /\ detectStuckState(stateSnapshots).isStuck
  /\ Len(actionHistory) < MaxHistory
  /\ actionHistory' = recordAction(actionHistory, suggestEscapeAction(actionHistory))
  /\ UNCHANGED <<page, config, pc, goal, currentStep, retryCount, steps, result,
                 processedInstructions, stateSnapshots, fieldStrategies,
                 recorded, ih, dd, er, ea, other, ws, pa, ce, fa>>

NextEscape == recordStateSnapshot \/ escapeStep

SpecEscape == InitEscape /\ [][NextEscape]_vars

\* The rung of the ladder for the recorded actions: Escape if none of the
\* last three is Escape, otherwise TabKey if none of them is TabKey,
\* otherwise Wait.
Rung(history) ==
  LET n == Len(history)
      recent == { history[k].type : k \in { j \in 1..n : j > n - 3 } }
  IN  IF "escape" \notin recent THEN "escape"
      ELSE IF "tab" \notin recent THEN "tab"
      ELSE "wait"

Tried(type) ==
  \E k \in 1..Len(actionHistory) :
    actionHistory[k].type = type /\ actionHistory[k].reason = "stuck"

\* C26: once Escape, TabKey and the Wait have each been tried and the digest
\* is still unchanged, no further escape action is offered.
C26_LadderEnds ==
  [][ (/\ Tried("escape") /\ Tried("tab") /\ Tried("wait")
       /\ detectStuckState(stateSnapshots).isStuck)
        => actionHistory' = actionHistory ]_vars

\* ---------------------------------------------------------------------------
\* The bounded digest history (specification SpecSnap)
\* ---------------------------------------------------------------------------

\* The n most recent of the digests recorded so far, in recording order.
MostRecent(all, n) ==
  SubSeq(all, IF Len(all) > n THEN Len(all) - n + 1 ELSE 1, Len(all))

\* C27: after any sequence of recordStateSnapshot calls the digest history
\* holds at most maxSnapshotHistory entries, and they are the most recently
\* recorded digests in recording order.
C27_HistoryIsMostRecent ==
  /\ Len(stateSnapshots) <= maxSnapshotHistory
  /\ stateSnapshots = MostRecent(recorded, maxSnapshotHistory)

\* more digests were recorded than the history keeps, and the evicted oldest
\* one differs from the one that took its place
C27_Witness ==
  /\ Len(recorded) > maxSnapshotHistory
  /\ Len(stateSnapshots) = maxSnapshotHistory
  /\ recorded[1].hash # stateSnapshots[1].hash
  /\ recorded[Len(recorded)].hash # stateSnapshots[1].hash

\* ---------------------------------------------------------------------------
\* Runs driven by explicit field instructions (specification SpecInstr):
\* execute() on pages whose fields are empty, filled, disabled or hidden, with
\* goals that carry one or two instructions
\* ---------------------------------------------------------------------------

\* a dialog whose only input is empty and disabled
LockedDialog ==
  [inputs  |-> << Inp("name", TRUE, TRUE, TRUE, "", Sel("dialog", "input")) >>,
   buttons |-> << Btn("close", FALSE, Sel("dialog", "close")) >>,
   requires |-> "",
   followUp |-> "none"]

InstrLayouts ==
  { << >>,
    << Inp("name", TRUE, FALSE, TRUE, "", F1), Inp("memo", FALSE, FALSE, TRUE, "", F2) >>,
    << Inp("email", TRUE, FALSE, TRUE, "a@b.c", F1), Inp("memo", FALSE, FALSE, TRUE, "", F2) >>,
    << Inp("email", TRUE, TRUE, TRUE, "a@b.c", F1), Inp("memo", FALSE, FALSE, TRUE, "", F2) >>,
    << Inp("name", TRUE, TRUE, TRUE, "", F1), Inp("memo", FALSE, FALSE, TRUE, "", F2) >>,
    << Inp("name", TRUE, FALSE, FALSE, "", F1) >> }

InstrPages ==
  { [url |-> "/form", buttons |-> b, fields |-> f, modals |-> m] :
      b \in ButtonLayouts, f \in InstrLayouts,
      m \in { << >>, << NameDialog >>, << LockedDialog >> } }

InstructionLists ==
  { << >>,
    << Instr(F1, "first", TRUE) >>,
    << Instr(F1, "first", FALSE) >>,
    << Instr(F1, "first", TRUE), Instr(F2, "second", TRUE) >>,
    << Instr(F1, "first", FALSE), Instr(F2, "second", FALSE) >> }

InstrGoals ==
  { [targetButton |-> t, successIndicator |-> s, requiredFields |-> << >>,
     fieldInstructions |-> fi] :
      t \in {"", "submit"}, s \in {"", "/done"}, fi \in InstructionLists }

InitInstr ==
  /\ page \in InstrPages
  /\ config \in { [maxSteps |-> MaxSteps, maxRetries |-> DefaultMaxRetries,
                   retryOnError |-> r, strictMode |-> FALSE] : r \in BOOLEAN }
  /\ pc = "idle"
  /\ goal = NoGoal
  /\ currentStep = 0
  /\ retryCount = 0
  /\ steps = << >>
  /\ result = NoResult
  /\ processedInstructions = {}
  /\ actionHistory = << >>
  /\ stateSnapshots = << >>
  /\ fieldStrategies = DefaultStrategies
  /\ recorded = << >>
  /\ ih = [pc |-> "unused"]
  /\ dd = [pc |-> "unused"]
  /\ er = [pc |-> "unused"]
  /\ ea = [pc |-> "unused"]
  /\ other = [pc |-> "unused"]
  /\ ws = [pc |-> "unused"]
  /\ pa = [pc |-> "unused"]
  /\ ce = [pc |-> "unused"]
  /\ fa = [pc |-> "unused"]

\* execute(goal) is called with a goal that carries field instructions
ExecuteInstr ==
  /\ pc = "idle"
  /\ \E g \in InstrGoals : ExecuteGoal(g)

NextInstr ==
  \/ ExecuteInstr
  \/ StepInstruction
  \/ StepDone
  \/ StepBlocked
  \/ StepExplore
  \/ StepExecute
  \/ StepConnectionLost
  \/ LoopExit
  \/ CatchError

SpecInstr == InitInstr /\ [][NextInstr]_vars

\* this transition appends a step to the run
StepAdded == Len(steps') = Len(steps) + 1

\* the action of the step this transition appends
NewAction == steps'[Len(steps')].action

\* the field the Fill was chosen for on page p: the first empty input of the
\* first dialog (modal resolution), the first analysed field the instruction
\* matches (instruction processing), or the form input returned by the scan
TargetOf(p, a) ==
  IF a.reason = "modal-field"
  THEN LET ins == p.modals[1].inputs
       IN  ins[FindIdx(ins, LAMBDA i : i.value = "")]
  ELSE IF a.reason = "instruction"
  THEN LET all == analyzeAllFields(p)
       IN  all[FindIdx(all, LAMBDA f : f.selector = a.selector)]
  ELSE LET fin == analyze(p).forms[1].inputs
       IN  fin[FindIdx(fin, LAMBDA i : i.selector = a.selector)]

\* C28: a field whose disabled flag is set is never chosen as the target of
\* a Fill action, whether the Fill comes from the generic next-field scan,
\* from explicit instruction processing, or from modal resolution.
C28_DisabledNeverFillTarget ==
  [][ (StepAdded /\ NewAction.type = "fill") => ~TargetOf(page, NewAction).disabled ]_vars

\* the same for the Fills of the generic scan and of instruction processing
DisabledNeverFillTargetOutsideDialogs ==
  [][ (StepAdded /\ NewAction.type = "fill" /\ NewAction.reason # "modal-field")
        => ~TargetOf(page, NewAction).disabled ]_vars

\* the first analysed field instruction i matches on the page, 0 when none
MatchedIdx(i) ==
  FindIdx(analyzeAllFields(page),
          LAMBDA f : matchesFieldIdentifier(goal.fieldInstructions[i].field, f))

MatchedField(i) == analyzeAllFields(page)[MatchedIdx(i)]

\* instruction i names a field that already holds a value
HoldsValue(i) == MatchedIdx(i) # 0 /\ MatchedField(i).value # ""

\* the instruction whose Fill this iteration emits, 0 when it emits none
EmittedIdx ==
  IF Pni.action = NoAction THEN 0
  ELSE CHOOSE i \in Pni.processed \ processedInstructions :
         \A j \in Pni.processed \ processedInstructions : j <= i

\* this iteration's scan looks at instruction i
Reached(i) ==
  /\ i \notin processedInstructions
  /\ EmittedIdx = 0 \/ i <= EmittedIdx

\* the Fill of instruction i: its matched field, its instructed value
FillOf(i) ==
  Act("fill", MatchedField(i).selector, goal.fieldInstructions[i].value, "instruction")

\* this transition is an iteration of the loop
Iteration == pc = "running" /\ currentStep' = currentStep + 1

\* C29 as stated: an explicit field instruction whose matched field already
\* holds a value produces no Fill and is marked processed, unless the
\* instruction sets skipIfFilled=false, in which case the field is filled
\* with the instructed value.
C29_FilledFieldSkippedUnlessOverride ==
  [][ Iteration =>
        \A i \in 1..Len(goal.fieldInstructions) :
          (Reached(i) /\ HoldsValue(i)) =>
            IF goal.fieldInstructions[i].skipIfFilled
            THEN i \in processedInstructions' /\ NewAction # FillOf(i)
            ELSE i \in processedInstructions' /\ NewAction = FillOf(i) ]_vars

\* C29 amended: the override fills the field only when the field is enabled;
\* a disabled field is passed over and its instruction stays unprocessed.
C29_FilledFieldSkippedUnlessOverrideEnabled ==
  [][ Iteration =>
        \A i \in 1..Len(goal.fieldInstructions) :
          (Reached(i) /\ HoldsValue(i)) =>
            IF goal.fieldInstructions[i].skipIfFilled
            THEN i \in processedInstructions' /\ NewAction # FillOf(i)
            ELSE IF MatchedField(i).disabled
            THEN i \notin processedInstructions' /\ NewAction # FillOf(i)
            ELSE i \in processedInstructions' /\ NewAction = FillOf(i) ]_vars

\* a field that held a value was overwritten with the instructed value by an
\* instruction that sets skipIfFilled=false
C29_Witness ==
  /\ pc = "running"
  /\ Len(goal.fieldInstructions) > 0
  /\ ~goal.fieldInstructions[1].skipIfFilled
  /\ 1 \in processedInstructions
  /\ Len(page.fields) > 0
  /\ page.fields[1].name = "email"
  /\ page.fields[1].value = "first"
  /\ steps[1].action = Act("fill", F1, "first", "instruction")
  /\ steps[1].success

\* an instruction with the default skipIfFilled was marked processed on a
\* filled field and no Fill of it was emitted
SkippedFilled ==
  /\ pc = "running"
  /\ Len(goal.fieldInstructions) > 0
  /\ goal.fieldInstructions[1].skipIfFilled
  /\ 1 \in processedInstructions
  /\ Len(page.fields) > 0
  /\ page.fields[1].value = "a@b.c"
  /\ Len(steps) > 0
  /\ \A k \in 1..Len(steps) : steps[k].action.selector # F1

\* the number of steps of the run whose action is a
InstructionFills(a) ==
  Cardinality({k \in 1..Len(steps) : steps[k].action = a})

\* C30: within one execute() call each explicit field instruction yields at
\* most one Fill action: it is marked processed when the Fill is emitted and
\* is never emitted again in that run, even if executing the Fill failed.
C30_AtMostOneFillPerInstruction ==
  (pc # "idle") =>
    \A i \in 1..Len(goal.fieldInstructions) :
      LET a == Act("fill", goal.fieldInstructions[i].field,
                   goal.fieldInstructions[i].value, "instruction")
      IN  /\ InstructionFills(a) <= 1
          /\ InstructionFills(a) = 1 => i \in processedInstructions

\* the first half alone: no instruction has two Fills among the steps of a run
NoInstructionEmittedTwice ==
  (pc # "idle") =>
    \A i \in 1..Len(goal.fieldInstructions) :
      InstructionFills(Act("fill", goal.fieldInstructions[i].field,
                           goal.fieldInstructions[i].value, "instruction")) <= 1

\* the Fill of an instruction failed, the run went on for two more
\* iterations, and the instruction was not emitted again
FailedFillNotRepeated ==
  /\ Len(goal.fieldInstructions) > 0
  /\ Len(steps) >= 3
  /\ steps[1].action = Act("fill", F1, "first", "instruction")
  /\ ~steps[1].success
  /\ 1 \in processedInstructions
  /\ \A k \in 2..Len(steps) : steps[k].action.reason # "instruction"

\* ---------------------------------------------------------------------------
\* How a run ends as a success (specification Spec)
\* ---------------------------------------------------------------------------

\* the run clicked the goal's target control and the click went through
ClickedTarget ==
  \E k \in 1..Len(steps) :
    /\ steps[k].action.type = "click"
    /\ steps[k].action.reason = "target-enabled"
    /\ steps[k].success

\* C31: execute() returns success=true only if the goal defines a success
\* condition and that condition held at the final decision; for a goal
\* without a success condition, clicking the target control never ends the
\* run as a success.
C31_SuccessOnlyByCondition ==
  /\ result.success =>
       /\ goal.successIndicator # ""
       /\ checkSuccessIndicator(page, goal.successIndicator)
       /\ Last(steps).action.type = "done"
  /\ (Returned /\ goal.successIndicator = "" /\ ClickedTarget) => ~result.success

\* a run that clicked its target and then returned success on the condition
C31_Witness ==
  /\ pc = "ret_done"
  /\ result.success
  /\ ClickedTarget

\* a run without success condition clicked its target and returned a failure
ClickedWithoutConditionFailed ==
  /\ Returned
  /\ goal.successIndicator = ""
  /\ ClickedTarget
  /\ ~result.success

\* ---------------------------------------------------------------------------
\* The retry counter of a run (specification Spec)
\* ---------------------------------------------------------------------------

\* this transition is an iteration whose decision was Blocked
BlockedDecision == pc = "running" /\ StepAdded /\ NewAction.type = "blocked"

\* C32: with retryOnError enabled, a Blocked decision ends the run only when
\* the retry counter has already reached maxRetries; until then the counter
\* is incremented and the loop decides again, and the counter returns to 0
\* only after a successfully executed action.
C32_BlockedRetriesThenEnds ==
  [][ /\ (config.retryOnError /\ BlockedDecision) =>
           IF retryCount >= config.maxRetries
           THEN pc' = "ret_blocked" /\ retryCount' = retryCount
           ELSE pc' = "running" /\ retryCount' = retryCount + 1
      /\ (pc = "running" /\ retryCount # 0 /\ retryCount' = 0) =>
           /\ StepAdded
           /\ IsExecution(steps'[Len(steps')])
           /\ steps'[Len(steps')].success ]_vars

\* with retryOnError enabled the run was Blocked maxRetries+1 times in a row
\* and ended on the last of them
C32_Witness ==
  /\ config.retryOnError
  /\ pc = "ret_blocked"
  /\ retryCount = config.maxRetries
  /\ Len(steps) = config.maxRetries + 1
  /\ \A k \in 1..Len(steps) : steps[k].action.type = "blocked"

\* the counter was raised by a failure and a later successful execution
\* set it back to 0
CounterReset ==
  /\ pc = "running"
  /\ retryCount = 0
  /\ Len(steps) >= 2
  /\ ~steps[Len(steps) - 1].success
  /\ IsExecution(steps[Len(steps) - 1])
  /\ IsExecution(Last(steps)) /\ Last(steps).success
  /\ config.retryOnError

\* ---------------------------------------------------------------------------
\* The order of recovery strategies (specification SpecRecovery)
\* ---------------------------------------------------------------------------

\* the entries of the strategy table that list error type e
ApplicableTo(e) ==
  { RecoveryStrategies[k] : k \in { j \in 1..Len(RecoveryStrategies) :
                                      e \in RecoveryStrategies[j].errorTypes } }

\* the priority number of the strategy of type t
PriorityOf(t) ==
  (CHOOSE st \in { RecoveryStrategies[k] : k \in 1..Len(RecoveryStrategies) } :
     st.strategyType = t).priority

\* C33: for a classified failure, attemptRecovery tries the strategies
\* applicable to that error type in strictly ascending priority number
\* within each round and returns as soon as one succeeds; a higher-numbered
\* strategy is never tried before a lower-numbered applicable one in the
\* same round.
C33_AscendingPriorityInRound ==
  /\ \A j \in 1..Len(er.tried) :
       /\ \E st \in ApplicableTo(er.errorType) : st.strategyType = er.tried[j]
       /\ j > 1 => PriorityOf(er.tried[j - 1]) < PriorityOf(er.tried[j])
       /\ \A st \in ApplicableTo(er.errorType) :
            st.priority < PriorityOf(er.tried[j]) =>
              \E i \in 1..(j - 1) : er.tried[i] = st.strategyType
  /\ (er.pc = "returned" /\ er.result.success /\ er.reloads = 0) =>
       /\ Len(er.tried) > 0
       /\ er.result.strategy = er.tried[Len(er.tried)]

\* a failure with three applicable strategies was recovered by the third one
\* in a later round, after the two lower-numbered ones had been tried
C33_Witness ==
  /\ er.pc = "returned"
  /\ er.errorType = "element-not-interactable"
  /\ er.attempt > 1
  /\ er.result.success
  /\ er.result.strategy = "clear-and-retry"
  /\ er.tried = << "scroll-into-view", "click-overlay-dismiss", "clear-and-retry" >>

\* ---------------------------------------------------------------------------
\* The order of the selection methods (specification SpecDropdown)
\* ---------------------------------------------------------------------------

\* the position of a method in the stated order: match an option, the
\* 'create new' affordance, Enter, Tab blur, keyboard navigation
StatedRank(m) ==
  CASE m \in {"role-option-click", "listitem-click"} -> 1
    [] m = "add-button-click" -> 2
    [] m = "enter-key" -> 3
    [] m = "tab-blur" -> 4
    [] m = "keyboard-navigation" -> 5

PositionOf(seq, m) == FindIdx(seq, LAMBDA x : x = m)

\* C34: for a combobox, after the value is typed the selection strategies are
\* attempted in the order: match exact option, then the 'create new'
\* affordance, then Enter, then Tab-blur, then keyboard arrow navigation;
\* each later strategy is attempted only after every earlier one has failed.
C34_SelectionOrder ==
  /\ \A i, j \in 1..Len(dd.tried) :
       i < j => StatedRank(dd.tried[i]) <= StatedRank(dd.tried[j])
  /\ (dd.allowCreate /\ PositionOf(dd.tried, "enter-key") # 0) =>
       /\ PositionOf(dd.tried, "add-button-click") # 0
       /\ PositionOf(dd.tried, "add-button-click") < PositionOf(dd.tried, "enter-key")

\* the same order with Enter and the 'create new' affordance exchanged: the
\* order of the calls in trySelectOption
SelectionOrderEnterFirst ==
  /\ \A i, j \in 1..Len(dd.tried) :
       i < j =>
         LET r(m) == IF m = "enter-key" THEN 2
                     ELSE IF m = "add-button-click" THEN 3 ELSE StatedRank(m)
         IN  r(dd.tried[i]) <= r(dd.tried[j])
  /\ (dd.allowCreate /\ PositionOf(dd.tried, "add-button-click") # 0) =>
       PositionOf(dd.tried, "enter-key") < PositionOf(dd.tried, "add-button-click")

\* Enter ended the selection although creating was allowed and the list
\* offered the 'create new' option for the typed value
EnterBeforeCreate ==
  /\ dd.pc = "returned"
  /\ dd.allowCreate
  /\ dd.result.method = "enter-key"
  /\ \E o \in dd.options : IsCreateOption(o, dd.value)
  /\ PositionOf(dd.tried, "add-button-click") = 0

\* ---------------------------------------------------------------------------
\* The composite stable-state wait (specification SpecWait)
\* ---------------------------------------------------------------------------

\* C35: the composite stable-state wait runs the DOM-stability wait and the
\* network-idle wait concurrently and reports success only if both
\* succeeded, that is, only if the DOM became stable and the network became
\* idle within the timeout.
C35_StableStateNeedsBoth ==
  (ws.pc = "returned" /\ ws.prim = "stable-state" /\ ws.result.success) =>
    /\ ws.dom = "ok" /\ ws.net = "ok"
    /\ ws.stable
    /\ ws.elapsed <= ws.timeout

\* the composite reports success exactly when both waits reported success
StableStateIsConjunction ==
  (ws.pc = "returned" /\ ws.prim = "stable-state") =>
    (ws.result.success <=> (ws.dom = "ok" /\ ws.net = "ok"))

\* the composite reported success although the page was still mutating when
\* the DOM wait gave up at its timeout
SuccessOnUnstableDom ==
  /\ ws.pc = "returned" /\ ws.prim = "stable-state"
  /\ ws.result.success
  /\ ~ws.stable
  /\ ws.elapsed >= ws.timeout

\* ---------------------------------------------------------------------------
\* WaitStrategy.withExponentialBackoff: one call with an operation that fails
\* or succeeds as it likes (specification SpecBackoff). Delays are counted in
\* units of the smallest delay; the error thrown by the n-th call of the
\* operation is identified by n.
\* ---------------------------------------------------------------------------

\* the options of the call; shouldRetry is the set of attempt numbers for
\* which it answers true
BackoffOptions ==
  { [maxRetries |-> r, initialDelay |-> d, maxDelay |-> m, multiplier |-> x,
     shouldRetry |-> s] :
      r \in 0..MaxBackoffRetries, d \in 1..MaxDelayUnits, m \in 1..MaxDelayUnits,
      x \in 1..2, s \in {0..MaxBackoffRetries, {}, {0}, {0, 1}} }

InitBackoff ==
  /\ ws \in { [pc |-> "attempt", options |-> o, attempt |-> 0,
               delay |-> o.initialDelay, calls |-> 0, waits |-> << >>,
               lastError |-> 0, thrown |-> 0] : o \in BackoffOptions }
  /\ ih = [pc |-> "unused"]
  /\ dd = [pc |-> "unused"]
  /\ er = [pc |-> "unused"]
  /\ ea = [pc |-> "unused"]
  /\ other = [pc |-> "unused"]
  /\ pa = [pc |-> "unused"]
  /\ ce = [pc |-> "unused"]
  /\ fa = [pc |-> "unused"]
  /\ page = [url |-> "/form", buttons |-> << >>, fields |-> << >>, modals |-> << >>]
  /\ goal = NoGoal
  /\ config = [maxSteps |-> MaxSteps, maxRetries |-> DefaultMaxRetries,
               retryOnError |-> TRUE, strictMode |-> FALSE]
  /\ pc = "idle"
  /\ currentStep = 0
  /\ retryCount = 0
  /\ steps = << >>
  /\ result = NoResult
  /\ processedInstructions = {}
  /\ actionHistory = << >>
  /\ stateSnapshots = << >>
  /\ fieldStrategies = DefaultStrategies
  /\ recorded = << >>

\* for (attempt = 0; attempt <= maxRetries; attempt++) try { return await fn() }
\* catch: rethrow when attempt >= maxRetries or shouldRetry answers false
backoffAttempt ==
  /\ ws.pc = "attempt"
  /\ \/ ws' = [ws EXCEPT !.pc = "returned", !.calls = @ + 1]
     \/ ws' = [ws EXCEPT
                 !.calls = @ + 1,
                 !.lastError = ws.calls + 1,
                 !.thrown = IF ws.attempt >= ws.options.maxRetries
                               \/ ws.attempt \notin ws.options.shouldRetry
                            THEN ws.calls + 1 ELSE 0,
                 !.pc = IF ws.attempt >= ws.options.maxRetries
                           \/ ws.attempt \notin ws.options.shouldRetry
                        THEN "thrown" ELSE "retry"]
  /\ WsFrame

\* delay = Math.min(delay * multiplier, maxDelay)
NextDelay(delay, o) == Min(delay * o.multiplier, o.maxDelay)

\* await this.page.waitForTimeout(delay); the next delay; attempt++
backoffWait ==
  /\ ws.pc = "retry"
  /\ ws' = [ws EXCEPT !.pc = "attempt",
                      !.waits = Append(ws.waits, ws.delay),
                      !.delay = NextDelay(ws.delay, ws.options),
                      !.attempt = @ + 1]
  /\ WsFrame

NextBackoff == backoffAttempt \/ backoffWait

SpecBackoff == InitBackoff /\ [][NextBackoff]_vars

RECURSIVE Pow(_, _)
Pow(b, e) == IF e = 0 THEN 1 ELSE b * Pow(b, e - 1)

\* the call count, the stop on shouldRetry and the rethrown error
BackoffCounts ==
  /\ ws.calls <= ws.options.maxRetries + 1
  /\ \A k \in 1..Len(ws.waits) : (k - 1) \in ws.options.shouldRetry
  /\ ws.pc = "thrown" => ws.thrown = ws.calls /\ ws.thrown = ws.lastError

\* the wait before the k-th retry
BackoffDelays ==
  \A k \in 1..Len(ws.waits) :
    /\ ws.waits[k] = Min(ws.options.initialDelay * Pow(ws.options.multiplier, k - 1),
                         ws.options.maxDelay)
    /\ ws.waits[k] <= ws.options.maxDelay

\* C36: withExponentialBackoff calls the operation at most maxRetries+1
\* times; the wait before the k-th retry is
\* min(initialDelay * multiplier^(k-1), maxDelay) and never exceeds maxDelay;
\* it stops retrying as soon as shouldRetry returns false, and it rethrows
\* the error of the last attempt.
C36_BackoffBounded == BackoffCounts /\ BackoffDelays

\* the same for calls whose initialDelay does not exceed maxDelay
BackoffBoundedFromBelowCap ==
  ws.options.initialDelay <= ws.options.maxDelay => (BackoffCounts /\ BackoffDelays)

\* the first wait of a call is longer than maxDelay
FirstWaitAboveCap ==
  /\ Len(ws.waits) > 0
  /\ ws.waits[1] > ws.options.maxDelay

\* ---------------------------------------------------------------------------
\* SmartFieldAnalyzer.analyzeField on one field, and the default value the
\* ActionDecider generates for it (specification SpecField). The text of a
\* field is the set of pattern words it contains; confidence is counted in
\* tenths.
\* ---------------------------------------------------------------------------

TagNames == {"select", "input", "textarea", "div"}

InputTypes ==
  {"none", "text", "radio", "checkbox", "file", "date", "datetime-local",
   "number", "password", "email", "tel", "url"}

Roles == {"none", "combobox", "listbox", "textbox"}

\* mutant of PurposePatterns: the general patterns come first
PurposePatternsGeneralFirst ==
  << "email", "phone", "url", "date", "amount", "password", "search",
     "description", "name", "channel", "campaign", "adgroup", "creative" >>

\* the pattern table of detectFieldPurpose, in array order
PurposePatterns ==
  << "channel", "campaign", "adgroup", "creative",
     "email", "phone", "url", "date", "amount", "password", "search",
     "description", "name" >>

PatternWords == { PurposePatterns[k] : k \in 1..Len(PurposePatterns) }

\* the texts analysed: up to MaxKeywords pattern words each
FieldTexts == { t \in SUBSET PatternWords : Cardinality(t) <= MaxKeywords }

FieldContext(tag, type, role, ind, auto, lb, label, ph, aria, text, name) ==
  [tagName |-> tag, type |-> type, role |-> role,
   hasDropdownIndicator |-> ind, hasAutocomplete |-> auto, hasListbox |-> lb,
   label |-> label, placeholder |-> ph, ariaLabel |-> aria,
   text |-> text, name |-> name]

\* the fields analysed: every combination of the attributes the type depends
\* on, every text with every field name, and every combination of the
\* signals the confidence depends on
FieldContexts ==
  { FieldContext(c[1], c[2], c[3], c[4], c[5], c[6], FALSE, FALSE, FALSE, {}, "memo") :
      c \in TagNames \X InputTypes \X Roles \X BOOLEAN \X BOOLEAN \X BOOLEAN }
  \cup
  { FieldContext("input", "text", "none", FALSE, FALSE, FALSE, TRUE, FALSE, FALSE, c[1], c[2]) :
      c \in FieldTexts \X FieldNames }
  \cup
  { FieldContext(c[1], "none", "none", FALSE, FALSE, FALSE, c[2], c[3], c[4], c[5], "memo") :
      c \in {"input", "div"} \X BOOLEAN \X BOOLEAN \X BOOLEAN \X {{}, {"name"}} }

\* detectFieldType
detectFieldType(c) ==
  IF c.tagName = "select" THEN "dropdown"
  ELSE IF c.role = "combobox" \/ (c.hasDropdownIndicator /\ c.hasAutocomplete)
  THEN "combobox"
  ELSE IF c.role = "listbox" THEN "dropdown"
  ELSE IF c.type = "radio" THEN "radio"
  ELSE IF c.type = "checkbox" THEN "checkbox"
  ELSE IF c.type = "file" THEN "file"
  ELSE IF c.type \in {"date", "datetime-local"} THEN "datepicker"
  ELSE IF c.type = "number" THEN "number"
  ELSE IF c.type = "password" THEN "password"
  ELSE IF c.type \in {"email", "tel", "url"} THEN "text"
  ELSE IF c.tagName = "textarea" THEN "textarea"
  ELSE IF c.hasDropdownIndicator \/ c.hasListbox THEN "combobox"
  ELSE IF c.tagName = "input" \/ c.role = "textbox" THEN "text"
  ELSE "unknown"

\* detectFieldPurpose: the purpose of the first pattern of the table that
\* matches the text
detectFieldPurpose(c) ==
  LET k == FindIdx(PurposePatterns, LAMBDA w : w \in c.text)
  IN  IF k # 0 THEN PurposePatterns[k] ELSE "unknown"

\* mutant of calculateConfidence: the sum is not capped
calculateConfidenceUncapped(c, fieldType, purpose) ==
  5 + (IF c.label THEN 2 ELSE 0)
    + (IF c.placeholder THEN 1 ELSE 0)
    + (IF c.ariaLabel THEN 1 ELSE 0)
    + (IF fieldType # "unknown" THEN 1 ELSE 0)
    + (IF purpose # "unknown" THEN 1 ELSE 0)

\* calculateConfidence, in tenths
calculateConfidence(c, fieldType, purpose) ==
  Min(5 + (IF c.label THEN 2 ELSE 0)
        + (IF c.placeholder THEN 1 ELSE 0)
        + (IF c.ariaLabel THEN 1 ELSE 0)
        + (IF fieldType # "unknown" THEN 1 ELSE 0)
        + (IF purpose # "unknown" THEN 1 ELSE 0),
      10)

InitField ==
  /\ fa \in { [pc |-> "start", context |-> c, fieldType |-> "pending",
               purpose |-> "pending", confidence |-> 0, value |-> "pending",
               generated |-> << >>] :
                c \in FieldContexts }
  /\ ih = [pc |-> "unused"]
  /\ dd = [pc |-> "unused"]
  /\ er = [pc |-> "unused"]
  /\ ea = [pc |-> "unused"]
  /\ other = [pc |-> "unused"]
  /\ ws = [pc |-> "unused"]
  /\ pa = [pc |-> "unused"]
  /\ ce = [pc |-> "unused"]
  /\ page = [url |-> "/form", buttons |-> << >>, fields |-> << >>, modals |-> << >>]
  /\ goal = NoGoal
  /\ config = [maxSteps |-> MaxSteps, maxRetries |-> DefaultMaxRetries,
               retryOnError |-> TRUE, strictMode |-> FALSE]
  /\ pc = "idle"
  /\ currentStep = 0
  /\ retryCount = 0
  /\ steps = << >>
  /\ result = NoResult
  /\ processedInstructions = {}
  /\ actionHistory = << >>
  /\ stateSnapshots = << >>
  /\ fieldStrategies = DefaultStrategies
  /\ recorded = << >>

FaFrame ==
  UNCHANGED <<page, config, pc, goal, currentStep, retryCount, steps, result,
              processedInstructions, actionHistory, stateSnapshots,
              fieldStrategies, recorded, ih, dd, er, ea, other, ws, pa, ce>>

\* analyzeField: type, purpose and confidence of the extracted context
analyzeField ==
  /\ fa.pc = "start"
  /\ fa' = [fa EXCEPT
              !.pc = "analyzed",
              !.fieldType = detectFieldType(fa.context),
              !.purpose = detectFieldPurpose(fa.context),
              !.confidence = calculateConfidence(fa.context,
                               detectFieldType(fa.context),
                               detectFieldPurpose(fa.context))]
  /\ FaFrame

\* the default values whose generator reads Date.now() or Math.random()
StampedValues ==
  {"ch_random", "test_campaign_ts", "test_adgroup_ts", "test_creative_ts",
   "test_name_ts", "test_ts@example.com", "test_value_ts", "fallback_ts"}

\* valueGenerator: the string generated in a run, the clock reading or the
\* random suffix of the run included where the generator reads one
valueGenerator(value, run) ==
  IF value \in StampedValues THEN <<value, run>> ELSE <<value, 0>>

\* generateValue for the field in one more run: the default value for its
\* name
generateValueCall ==
  /\ fa.pc \in {"analyzed", "valued"}
  /\ Len(fa.generated) < MaxRuns
  /\ fa' = [fa EXCEPT
              !.pc = "valued",
              !.value = generateValue(fa.context, fieldStrategies),
              !.generated = Append(@,
                 valueGenerator(generateValue(fa.context, fieldStrategies),
                                Len(fa.generated) + 1))]
  /\ FaFrame

NextField == analyzeField \/ generateValueCall

SpecField == InitField /\ [][NextField]_vars

\* the type the stated rules give: native select, combobox, role listbox,
\* the input types, textarea, generic text
StatedType(c) ==
  IF c.tagName = "select" THEN "dropdown"
  ELSE IF c.role = "combobox" \/ (c.hasDropdownIndicator /\ c.hasAutocomplete)
  THEN "combobox"
  ELSE IF c.role = "listbox" THEN "dropdown"
  ELSE IF c.type \in {"radio", "checkbox", "file", "number", "password"} THEN c.type
  ELSE IF c.type \in {"date", "datetime-local"} THEN "datepicker"
  ELSE IF c.type \in {"email", "tel", "url"} THEN "text"
  ELSE IF c.tagName = "textarea" THEN "textarea"
  ELSE IF c.tagName = "input" \/ c.role = "textbox" THEN "text"
  ELSE "unknown"

\* C37: field type is decided by the first matching rule in the fixed order
\* native select, combobox (dropdown indicator and autocomplete),
\* role=listbox, input-type-specific, textarea, generic text; a later rule
\* never overrides an earlier rule that matches.
C37_TypeByFirstRule ==
  fa.pc # "start" => fa.fieldType = StatedType(fa.context)

\* the same for fields without a dropdown indicator and a linked listbox
TypeByFirstRulePlainFields ==
  (fa.pc # "start" /\ ~fa.context.hasDropdownIndicator /\ ~fa.context.hasListbox)
    => fa.fieldType = StatedType(fa.context)

\* a plain text input with a dropdown indicator and no autocomplete is
\* typed as a combobox
IndicatorAloneIsCombobox ==
  /\ fa.pc = "analyzed"
  /\ fa.context.tagName = "input" /\ fa.context.type = "text"
  /\ fa.context.role = "none"
  /\ fa.context.hasDropdownIndicator /\ ~fa.context.hasAutocomplete
  /\ fa.fieldType = "combobox"

\* the purposes and default values of the business entities, and the general
\* purposes
BusinessPurposes == {"channel", "campaign", "adgroup", "creative"}

GeneralPurposes ==
  {"name", "url", "email", "phone", "date", "amount", "description"}

BusinessValues ==
  {"ch_random", "test_campaign_ts", "test_adgroup_ts", "test_creative_ts"}

\* the strategies whose pattern matches the field name n
MatchingStrategies(n) ==
  { k \in 1..Len(fieldStrategies) : n \in fieldStrategies[k].fieldPattern }

\* the last strategy of the list, which matches every name
CatchAll == Len(fieldStrategies)

BusinessStrategyMatches(n) ==
  \E k \in MatchingStrategies(n) : fieldStrategies[k].value \in BusinessValues

GeneralStrategyMatches(n) ==
  \E k \in MatchingStrategies(n) :
    k # CatchAll /\ fieldStrategies[k].value \notin BusinessValues

\* C38: whenever a field's text matches both a business-entity pattern
\* (channel, campaign, ad group, creative) and a generic pattern (name, url,
\* email, phone, date, amount, description), the business-entity result is
\* the one chosen, both in purpose inference and in default-value strategy
\* selection; the catch-all default strategy is consulted only when no other
\* pattern matches.
C38_BusinessBeforeGeneral ==
  /\ (fa.pc \in {"analyzed", "valued"}
        /\ fa.context.text \cap BusinessPurposes # {}
        /\ fa.context.text \cap GeneralPurposes # {})
       => fa.purpose \in fa.context.text \cap BusinessPurposes
  /\ (fa.pc = "valued"
        /\ BusinessStrategyMatches(fa.context.name)
        /\ GeneralStrategyMatches(fa.context.name))
       => fa.value \in BusinessValues
  /\ (fa.pc = "valued" /\ fa.value = fieldStrategies[CatchAll].value)
       => MatchingStrategies(fa.context.name) = {CatchAll}

\* a field whose text and name match the campaign and the name patterns has
\* purpose campaign and the campaign default value
C38_Witness ==
  /\ fa.pc = "valued"
  /\ fa.context.text = {"campaign", "name"}
  /\ fa.context.name = "campaign name"
  /\ GeneralStrategyMatches(fa.context.name)
  /\ fa.purpose = "campaign"
  /\ fa.value = "test_campaign_ts"

\* a field name no other pattern matches gets the catch-all value
CatchAllValueUsed ==
  /\ fa.pc = "valued"
  /\ fa.context.name = "memo"
  /\ fa.value = "test_value_ts"

\* C39: every default value generated for a field carries a per-run unique
\* component (a timestamp or a random suffix), so default values generated
\* for the same field in two different runs never coincide.
C39_DefaultValuesDifferPerRun ==
  \A i, j \in 1..Len(fa.generated) :
    i # j => fa.generated[i] # fa.generated[j]

\* the same for every field name but the phone and web address ones
StampedValuesDifferPerRun ==
  fa.context.name \notin {"phone", "website url"}
    => \A i, j \in 1..Len(fa.generated) :
         i # j => fa.generated[i] # fa.generated[j]

\* two runs generated the same phone number for the phone field
SamePhoneValueTwice ==
  /\ fa.pc = "valued"
  /\ fa.context.name = "phone"
  /\ Len(fa.generated) >= 2
  /\ fa.generated[1] = fa.generated[2]
  /\ fa.value = "010-1234-5678"

\* the signals of an analysed field that raise its confidence, in tenths
SignalTenths ==
  (IF fa.context.label THEN 2 ELSE 0)
  + (IF fa.context.placeholder THEN 1 ELSE 0)
  + (IF fa.context.ariaLabel THEN 1 ELSE 0)
  + (IF fa.fieldType # "unknown" THEN 1 ELSE 0)
  + (IF fa.purpose # "unknown" THEN 1 ELSE 0)

\* C40: for every classified field, confidence equals min(1.0, 0.5 + 0.2 if
\* a label is present + 0.1 if a placeholder is present + 0.1 if an
\* aria-label is present + 0.1 if the type is resolved + 0.1 if the purpose
\* is resolved), and therefore always lies in [0.5, 1.0].
C40_ConfidenceFormula ==
  fa.pc \in {"analyzed", "valued"} =>
    /\ fa.confidence = (IF 5 + SignalTenths > 10 THEN 10 ELSE 5 + SignalTenths)
    /\ fa.confidence >= 5
    /\ fa.confidence <= 10

\* a field with every signal present: the sum is 1.1 and the confidence 1.0
C40_Witness ==
  /\ fa.pc = "analyzed"
  /\ fa.context.label /\ fa.context.placeholder /\ fa.context.ariaLabel
  /\ fa.fieldType # "unknown" /\ fa.purpose # "unknown"
  /\ 5 + SignalTenths = 11
  /\ fa.confidence = 10

\* a field with no signal at all has confidence 0.5
ConfidenceFloorReached ==
  /\ fa.pc = "analyzed"
  /\ SignalTenths = 0
  /\ fa.confidence = 5

====
